---------------------------- MODULE Spec2Model ----------------------------
(***************************************************************************)
(* Model of the statistical analysis core of the LLM randomness analyser   *)
(* (src/backend/stats): the StatsAnalyzer orchestrator, the NIST-style     *)
(* bit tests, the descriptive statistics and the chart utilities.          *)
(*                                                                         *)
(* Numbers.  A list element is a record [k, v]:                            *)
(*   k = "fin"  a finite number, v counts halves (value = v / 2), so that  *)
(*              v even is a whole number and v odd is a non-integer;       *)
(*   k = "nan"  float('nan');   k = "inf"  +/-infinity (v = 1 or -1);      *)
(*   k = "str"  an element that is not an int or float.                    *)
(* Quantiles are reported in units of 1/(2*QUnit) = 1/40, the common       *)
(* denominator of numpy's linear interpolation at the percentiles used.    *)
(* Real-valued statistics and p-values are fixed-point numbers: a          *)
(* statistic z in units of 1/FxOne, a chi-square in hundredths, a p-value  *)
(* in basis points on the grid PGrid (the smallest grid level that is not  *)
(* below the true p-value, so comparisons with 0.01 and 0.05 are kept).    *)
(***************************************************************************)
EXTENDS Integers, Sequences, FiniteSets, TLC

VARIABLES
    op,               \* the call the caller made last ("idle" before any call)
    numbers,          \* the caller's list handed to analyze
    runs,             \* the caller's list of lists handed to analyze_multi_run
    num_runs,         \* the run count the caller declares
    analyzer,         \* the attributes of the StatsAnalyzer instance
    binary_sequence,  \* the bit list handed to the NIST tests
    test_param,       \* the matrix_size, block_size or m handed to a NIST test
    arr,              \* the array handed to basic_stats / downsample_single
    arr_y,            \* the second array handed to downsample
    max_points,       \* the max_points handed to downsample
    calls,            \* how many calls were made on this analyzer
    first,            \* the outcome of the first call made on this analyzer
    body,             \* the request body handed to analyze_numbers_service
    stats_analyzer,   \* the analyzer object handed to analyze_numbers_service
    result            \* the outcome of the last call

vars == <<op, numbers, runs, num_runs, analyzer, binary_sequence, test_param, arr,
          arr_y, max_points, calls, first, body, stats_analyzer, result>>

----------------------------------------------------------------------------
(* Values and outcomes *)

Fin(h) == [k |-> "fin", v |-> h]
NaN == [k |-> "nan", v |-> 0]
PosInf == [k |-> "inf", v |-> 1]
NegInf == [k |-> "inf", v |-> -1]
NonNumeric == [k |-> "str", v |-> 0]

\* isinstance(x, (int, float))
IsNumber(e) == e.k # "str"

\* np.isnan(x) or np.isinf(x)
IsNanOrInf(e) == e.k \in {"nan", "inf"}

Returned(val) == [kind |-> "returned", value |-> val]
Raised(exc, msg) == [kind |-> "raised", exc |-> exc, msg |-> msg]
NoOutcome == [kind |-> "none"]

----------------------------------------------------------------------------
(* Integer helpers *)

Abs(i) == IF i < 0 THEN -i ELSE i
Min2(a, b) == IF a <= b THEN a ELSE b
Max2(a, b) == IF a >= b THEN a ELSE b

Sign(i) == IF i < 0 THEN -1 ELSE IF i = 0 THEN 0 ELSE 1
\* variant: the sign of the first factor alone
SignOfFirstFactor(a, b) == Sign(a)

SignOfProduct(a, b) == Sign(a) * Sign(b)

\* the sum of s[lo..hi], added up by halves so that the evaluation stays shallow
RECURSIVE SeqSumIn(_, _, _)
SeqSumIn(s, lo, hi) ==
    IF lo > hi THEN 0
    ELSE IF lo = hi THEN s[lo]
    ELSE SeqSumIn(s, lo, (lo + hi) \div 2) + SeqSumIn(s, (lo + hi) \div 2 + 1, hi)

SeqSum(s) == SeqSumIn(s, 1, Len(s))

SeqMin(s) == CHOOSE m \in {s[i] : i \in 1..Len(s)} : \A i \in 1..Len(s) : m <= s[i]
SeqMax(s) == CHOOSE m \in {s[i] : i \in 1..Len(s)} : \A i \in 1..Len(s) : m >= s[i]

RECURSIVE Pow2(_)
Pow2(e) == IF e = 0 THEN 1 ELSE 2 * Pow2(e - 1)

\* floor(log2(i)) for i >= 1
RECURSIVE Log2Floor(_)
Log2Floor(i) == IF i < 2 THEN 0 ELSE 1 + Log2Floor(i \div 2)

\* floor(sqrt(i)) by bisection on [lo, hi]
RECURSIVE ISqrtIn(_, _, _)
ISqrtIn(i, lo, hi) ==
    IF lo >= hi THEN lo
    ELSE LET mid == (lo + hi + 1) \div 2
         IN  IF mid * mid <= i THEN ISqrtIn(i, mid, hi) ELSE ISqrtIn(i, lo, mid - 1)

ISqrt(i) == ISqrtIn(i, 0, Min2(i, 46340))

\* insertion of one value into an ascending sequence
RECURSIVE InsertSorted(_, _)
InsertSorted(s, e) ==
    IF s = <<>> THEN <<e>>
    ELSE IF e <= Head(s) THEN <<e>> \o s
    ELSE <<Head(s)>> \o InsertSorted(Tail(s), e)

\* np.sort on a list of finite numbers
RECURSIVE NpSort(_)
NpSort(s) == IF s = <<>> THEN <<>> ELSE InsertSorted(NpSort(Tail(s)), Head(s))

\* the payload of a list of finite elements
Halves(list) == [i \in 1..Len(list) |-> list[i].v]


\* evaluates a list-shaped function once, element by element
Force(f) == f \o <<>>

----------------------------------------------------------------------------
(* p-values on a grid.  A table lists <<p in basis points, critical        *)
(* value>> with p falling and the critical value rising; the p-value of a  *)
(* statistic is the last level whose critical value it reaches.            *)

PGrid == {10000, 5000, 1000, 500, 100, 10}

\* scipy.stats.norm: two-sided tail of |z|, |z| in units of 1/FxOne
FxOne == 2 ^ 6
NormTwoSided == << <<10000, 0>>, <<5000, 44>>, <<1000, 106>>, <<500, 126>>,
                   <<100, 165>>, <<10, 211>> >>

\* scipy.stats.chi2 upper tails, the statistic in hundredths
Chi2Df2 == << <<10000, 0>>, <<5000, 139>>, <<1000, 461>>, <<500, 600>>,
              <<100, 922>>, <<10, 1382>> >>
Chi2Df4 == << <<10000, 0>>, <<5000, 336>>, <<1000, 778>>, <<500, 949>>,
              <<100, 1328>>, <<10, 1847>> >>
Chi2Df5 == << <<10000, 0>>, <<5000, 436>>, <<1000, 924>>, <<500, 1108>>,
              <<100, 1509>>, <<10, 2052>> >>

\* 1 - cdf(stat) read off a table
TailP(table, stat) ==
    LET reached == {i \in 1..Len(table) : stat >= table[i][2]}
        last == CHOOSE i \in reached : \A j \in reached : j <= i
    IN  table[last][1]

\* the thresholds of the code, in basis points
NistAlpha == 100
KsAlpha == 500

\* None and a float of the result records
None == <<>>
Float(x) == <<x>>

----------------------------------------------------------------------------
(* numbers_to_binary: struct.pack('>d', float(num)) bit by bit *)

\* the w low bits of i, most significant first
IntBits(i, w) == [j \in 1..w |-> (i \div Pow2(w - j)) % 2]

\* the 64 bits of the IEEE-754 double of one element, big-endian
Float64Bits(e) ==
    IF e.k = "nan" THEN <<0>> \o [j \in 1..11 |-> 1] \o <<1>> \o [j \in 1..51 |-> 0]
    ELSE IF e.k = "inf"
    THEN <<(IF e.v < 0 THEN 1 ELSE 0)>> \o [j \in 1..11 |-> 1] \o [j \in 1..52 |-> 0]
    ELSE IF e.v = 0 THEN [j \in 1..64 |-> 0]
    ELSE LET a == Abs(e.v)
             l == Log2Floor(a)
             frac == a - Pow2(l)
         IN  <<(IF e.v < 0 THEN 1 ELSE 0)>>
             \o IntBits(l - 1 + 1023, 11)
             \o IntBits(frac, l)
             \o [j \in 1..(52 - l) |-> 0]

\* variant: the eight bytes of every double in little-endian order
RECURSIVE NumbersToBinaryLittleEndian(_)
NumbersToBinaryLittleEndian(nums) ==
    IF nums = <<>> THEN <<>>
    ELSE [j \in 1..64 |-> Float64Bits(Head(nums))[56 - 8 * ((j - 1) \div 8) + ((j - 1) % 8) + 1]]
         \o NumbersToBinaryLittleEndian(Tail(nums))

RECURSIVE numbers_to_binary(_)
numbers_to_binary(nums) ==
    IF nums = <<>> THEN <<>>
    ELSE Float64Bits(Head(nums)) \o numbers_to_binary(Tail(nums))

----------------------------------------------------------------------------
(* The four NIST tests (nist_tests.py) *)

\* variant: an error record that reports a pass
ErrorRecordPassing(msg) ==
    [p_value |-> None, statistic |-> None, passed |-> TRUE, error |-> msg]

\* the record every test returns when it cannot run
ErrorRecord(msg) ==
    [p_value |-> None, statistic |-> None, passed |-> FALSE, error |-> msg]

CountOnes(b) == Cardinality({i \in 1..Len(b) : b[i] = 1})

\* the pass rule shared by the four tests: passed = p_value > 0.01
PassedAt(p) == p > NistAlpha

\* |z| of the runs test in units of 1/FxOne:
\*   z = (runs - expected_runs) / sqrt(variance), with u = 2*ones*zeros/n,
\*   expected_runs = u + 1 and variance = u*(u - 1)/(n - 1)
RunsZ(n, ones, zeros, nruns) ==
    LET u == (2 * ones * zeros * FxOne) \div n
        d == (nruns - 1) * FxOne - u
        rootN == ISqrt((n - 1) * 256)
        rootU == ISqrt(u * (u - FxOne))
        mag == IF rootU = 0 THEN 0 ELSE ((((Abs(d) * rootN) \div 16) * FxOne) \div rootU)
    IN  IF d < 0 THEN -mag ELSE mag

\* variant: the run counter starts at 0
CountRunsFromZero(b) == Cardinality({i \in 2..Len(b) : b[i] # b[i - 1]})

\* runs = 1, plus 1 for every bit that differs from the bit before it
CountRuns(b) == 1 + Cardinality({i \in 2..Len(b) : b[i] # b[i - 1]})

runs_test(b) ==
    LET n == Len(b)
        ones == CountOnes(b)
        zeros == n - ones
        nruns == CountRuns(b)
        \* the sign of variance = 2*ones*zeros*(2*ones*zeros - n) / (n*n*(n - 1))
        varSign == SignOfProduct(2 * ones * zeros, 2 * ones * zeros - n)
        z == RunsZ(n, ones, zeros, nruns)
        p == TailP(NormTwoSided, Abs(z))
    IN  IF n < 2 THEN ErrorRecord("Sequence too short")
        ELSE IF ones = 0 \/ zeros = 0
        THEN ErrorRecord("Sequence contains only one type of bit")
        ELSE IF varSign <= 0 THEN ErrorRecord("Invalid variance")
        ELSE [p_value |-> Float(p), statistic |-> Float(z), runs |-> nruns,
              expected_runs |-> [num |-> 2 * ones * zeros + n, den |-> n],
              ones |-> ones, zeros |-> zeros, passed |-> PassedAt(p)]

\* a chi-square term (observed - expected)^2 / expected in hundredths, with
\* expected = n * prob and prob in units of 1/10000
ChiTerm(observed, n, prob) ==
    LET d == (observed * 10000 - n * prob) \div 10
    IN  (d * d) \div (n * prob)

RECURSIVE GcdNat(_, _)
GcdNat(a, b) == IF b = 0 THEN a ELSE GcdNat(b, a % b)

RECURSIVE RowGcd(_, _, _)
RowGcd(row, j, g) ==
    IF j > Len(row) \/ g = 1 THEN g ELSE RowGcd(row, j + 1, GcdNat(Abs(row[j]), g))

\* row i with column c cleared by pivot row p, scaled down by its gcd
ClearColumn(rowi, rowp, c) ==
    LET raw == Force([j \in 1..Len(rowi) |-> rowp[c] * rowi[j] - rowi[c] * rowp[j]])
        g == RowGcd(raw, 1, 0)
    IN  IF g <= 1 THEN raw ELSE Force([j \in 1..Len(raw) |-> raw[j] \div g])

\* Gaussian elimination over the rationals, column by column
RECURSIVE RankFrom(_, _, _)
RankFrom(m, used, c) ==
    IF c > Len(m[1]) THEN Cardinality(used)
    ELSE LET cand == {i \in (1..Len(m)) \ used : m[i][c] # 0}
         IN  IF cand = {} THEN RankFrom(m, used, c + 1)
             ELSE LET p == CHOOSE i \in cand : \A j \in cand : i <= j
                      m2 == Force([i \in 1..Len(m) |->
                                IF i \in cand \ {p} THEN ClearColumn(m[i], m[p], c)
                                ELSE m[i]])
                  IN  RankFrom(m2, used \cup {p}, c + 1)

\* np.linalg.matrix_rank of an integer matrix: its rank over the reals
matrix_rank(m) == RankFrom(m, {}, 1)

\* variant: the matrices are cut from the end of the sequence, so the bits left
\* over are the leading ones
MatrixAtFromEnd(b, i, matrix_size) ==
    LET skip == Len(b) % (matrix_size * matrix_size)
    IN  Force([row \in 1..matrix_size |->
            SubSeq(b, skip + i * matrix_size * matrix_size + (row - 1) * matrix_size + 1,
                      skip + i * matrix_size * matrix_size + row * matrix_size)])

\* the i-th (0-based) matrix_size x matrix_size matrix of the sequence, row-major
MatrixAt(b, i, matrix_size) ==
    Force([row \in 1..matrix_size |->
        SubSeq(b, i * matrix_size * matrix_size + (row - 1) * matrix_size + 1,
                  i * matrix_size * matrix_size + row * matrix_size)])

binary_matrix_rank_test(b, matrix_size) ==
    LET n == Len(b)
        min_required == matrix_size * matrix_size
        num_matrices == n \div (matrix_size * matrix_size)
        ranks == Force([i \in 1..num_matrices |-> matrix_rank(MatrixAt(b, i - 1, matrix_size))])
        full == Cardinality({i \in 1..num_matrices : ranks[i] = matrix_size})
        minus1 == Cardinality({i \in 1..num_matrices : ranks[i] = matrix_size - 1})
        rest == Cardinality({i \in 1..num_matrices :
                               ranks[i] # matrix_size /\ ranks[i] # matrix_size - 1})
        chi_square == ChiTerm(full, num_matrices, 2888)
                      + ChiTerm(minus1, num_matrices, 5776)
                      + ChiTerm(rest, num_matrices, 1336)
        p == TailP(Chi2Df2, chi_square)
    IN  IF matrix_size # 32 THEN ErrorRecord("Only matrix_size=32 is supported")
        ELSE IF n < min_required
        THEN ErrorRecord("Sequence too short (need at least "
                         \o ToString(min_required) \o " bits)")
        ELSE IF num_matrices < 1 THEN ErrorRecord("Cannot form any matrices")
        ELSE [p_value |-> Float(p), statistic |-> Float(chi_square),
              num_matrices |-> num_matrices, full_rank_count |-> full,
              rank_minus_1_count |-> minus1, rank_0_count |-> rest,
              passed |-> PassedAt(p)]

\* the runs of 1s of b[lo..hi]: the run at its left end (pre), the run at its
\* right end (suf), the longest run (best) and the length (len); the scan of
\* the block, made by halves so that the evaluation stays shallow
RECURSIVE OnesRuns(_, _, _)
OnesRuns(b, lo, hi) ==
    IF lo = hi
    THEN [pre |-> b[lo], suf |-> b[lo], best |-> b[lo], len |-> 1]
    ELSE LET mid == (lo + hi) \div 2
             l == OnesRuns(b, lo, mid)
             r == OnesRuns(b, mid + 1, hi)
         IN  [pre |-> IF l.pre = l.len THEN l.len + r.pre ELSE l.pre,
              suf |-> IF r.suf = r.len THEN r.len + l.suf ELSE r.suf,
              best |-> Max2(Max2(l.best, r.best), l.suf + r.pre),
              len |-> l.len + r.len]

\* variant: the scan of a block does not stop at the end of the block
LongestRunToTheEnd(b, lo, hi) == OnesRuns(b, lo, Len(b)).best

\* max_run of the block b[lo..hi]
LongestRunIn(b, lo, hi) == OnesRuns(b, lo, hi).best

\* the bucket of a block's longest run: <= 4, 5, 6, 7, 8, >= 9
RunBucket(max_run) == IF max_run <= 4 THEN 4 ELSE IF max_run >= 9 THEN 9 ELSE max_run

run_lengths == <<4, 5, 6, 7, 8, 9>>
expected_freqs == <<1174, 2430, 2493, 1752, 1027, 1124>>

RECURSIVE SumOver(_, _)
SumOver(f, n) == IF n = 0 THEN 0 ELSE f[n] + SumOver(f, n - 1)

longest_run_of_ones_test(b, block_size) ==
    LET n == Len(b)
        num_blocks == n \div block_size
        bucket == Force([i \in 1..num_blocks |->
                     RunBucket(LongestRunIn(b, (i - 1) * block_size + 1, i * block_size))])
        run_counts == [len \in {4, 5, 6, 7, 8, 9} |->
                         Cardinality({i \in 1..num_blocks : bucket[i] = len})]
        terms == [j \in 1..6 |-> ChiTerm(run_counts[run_lengths[j]], num_blocks, expected_freqs[j])]
        chi_square == SumOver(terms, 6)
        p == TailP(Chi2Df5, chi_square)
    IN  IF block_size # 128 THEN ErrorRecord("Only block_size=128 is supported")
        ELSE IF n < block_size
        THEN ErrorRecord("Sequence too short (need at least "
                         \o ToString(block_size) \o " bits)")
        ELSE IF num_blocks < 1 THEN ErrorRecord("Cannot form any blocks")
        ELSE [p_value |-> Float(p), statistic |-> Float(chi_square),
              num_blocks |-> num_blocks,
              run_counts |-> [key \in {ToString(len) : len \in {4, 5, 6, 7, 8, 9}} |->
                                run_counts[CHOOSE len \in {4, 5, 6, 7, 8, 9} : ToString(len) = key]],
              passed |-> PassedAt(p)]

\* np.log in units of 1/LnOne: ln(c) = e*ln(2) + 2*atanh((c - 2^e)/(c + 2^e))
LnOne == 2 ^ 15
Ln2Fx == 22713
LnFx(c) ==
    LET e == Log2Floor(c)
        t == ((c - Pow2(e)) * LnOne) \div (c + Pow2(e))
        t2 == (t * t) \div LnOne
        t3 == (t * t2) \div LnOne
        t5 == (t3 * t2) \div LnOne
        t7 == (t5 * t2) \div LnOne
        t9 == (t7 * t2) \div LnOne
    IN  e * Ln2Fx + 2 * (t + t3 \div 3 + t5 \div 5 + t7 \div 7 + t9 \div 9)

\* a bit pattern read as a binary numeral
PatternCode(pat) ==
    SumOver([j \in 1..Len(pat) |-> pat[j] * Pow2(Len(pat) - j)], Len(pat))

\* variant: the sequence is read as a ring, one pattern starting at every bit
CountPatternsWrapAround(b, pattern_length) ==
    LET num_patterns == Len(b)
        ring == b \o SubSeq(b, 1, pattern_length - 1)
        code == Force([i \in 1..num_patterns |->
                         PatternCode(SubSeq(ring, i, i + pattern_length - 1))])
        seen == {code[i] : i \in 1..num_patterns}
        count == [c \in seen |-> Cardinality({i \in 1..num_patterns : code[i] = c})]
    IN  [pattern_counts |->
             [pat \in {IntBits(c, pattern_length) : c \in seen} |-> count[PatternCode(pat)]],
         num_patterns |-> num_patterns]

\* count_patterns: the patterns of a length that occur, each with its count
count_patterns(b, pattern_length) ==
    LET num_patterns == Len(b) - pattern_length + 1
        code == Force([i \in 1..num_patterns |->
                         PatternCode(SubSeq(b, i, i + pattern_length - 1))])
        seen == {code[i] : i \in 1..num_patterns}
        count == [c \in seen |-> Cardinality({i \in 1..num_patterns : code[i] = c})]
    IN  [pattern_counts |->
             [pat \in {IntBits(c, pattern_length) : c \in seen} |-> count[PatternCode(pat)]],
         num_patterns |-> num_patterns]

RECURSIVE SumCLnC(_, _)
SumCLnC(pattern_counts, pats) ==
    IF pats = {} THEN 0
    ELSE LET pat == CHOOSE q \in pats : TRUE
         IN  pattern_counts[pat] * LnFx(pattern_counts[pat])
             + SumCLnC(pattern_counts, pats \ {pat})

\* calculate_phi = sum of prob*log(prob) = (sum of count*ln(count))/num - ln(num)
calculate_phi(pattern_counts, num_patterns) ==
    SumCLnC(pattern_counts, DOMAIN pattern_counts) \div num_patterns - LnFx(num_patterns)

approximate_entropy_test(b, m) ==
    LET n == Len(b)
        min_required == 10 * Pow2(m)
        cm == count_patterns(b, m)
        cm1 == count_patterns(b, m + 1)
        phi_m == calculate_phi(cm.pattern_counts, cm.num_patterns)
        phi_m1 == calculate_phi(cm1.pattern_counts, cm1.num_patterns)
        ap_en == phi_m - phi_m1
        raw == 2 * n * (Ln2Fx - ap_en)
        chi2_stat == IF raw < 0 THEN 0 ELSE ((raw \div 32) * 100) \div (LnOne \div 32)
        p == TailP(Chi2Df4, chi2_stat)
    IN  IF n < min_required
        THEN ErrorRecord("Sequence too short (need at least " \o ToString(min_required)
                         \o " bits for m=" \o ToString(m) \o ")")
        ELSE [p_value |-> Float(p), statistic |-> Float(chi2_stat),
              approximate_entropy |-> ap_en, phi_m |-> phi_m, phi_m1 |-> phi_m1,
              pattern_length_m |-> m, pattern_length_m1 |-> m + 1,
              num_patterns_m |-> cm.num_patterns, num_patterns_m1 |-> cm1.num_patterns,
              unique_patterns_m |-> Cardinality(DOMAIN cm.pattern_counts),
              unique_patterns_m1 |-> Cardinality(DOMAIN cm1.pattern_counts),
              passed |-> PassedAt(p)]

\* nist_tests on a bit list, with the default matrix_size, block_size and m
NistOnBits(b) ==
    [runs_test |-> runs_test(b),
     binary_matrix_rank_test |-> binary_matrix_rank_test(b, 32),
     longest_run_of_ones_test |-> longest_run_of_ones_test(b, 128),
     approximate_entropy_test |-> approximate_entropy_test(b, 2),
     binary_sequence_length |-> Len(b)]

\* nist_tests(arr)
nist_tests(nums) == NistOnBits(numbers_to_binary(nums))

----------------------------------------------------------------------------
(* utils.py: downsampling *)

MAX_CHART_POINTS == 5000

\* np.linspace(0, n - 1, num, dtype=int) computes in double precision:
\* step = (n - 1) / (num - 1), y[i] = i * step, y[num - 1] = n - 1, and then
\* takes floor(y).  Below a = n - 1 and b = num - 1.

\* 2^e modulo m
RECURSIVE PowerOfTwoMod(_, _)
PowerOfTwoMod(e, m) == IF e = 0 THEN 1 % m ELSE (2 * PowerOfTwoMod(e - 1, m)) % m

\* the exponent of the double a / b: the e with 2^e <= a / b < 2^(e + 1)
RECURSIVE QuotientExponent(_, _)
QuotientExponent(a, b) ==
    IF a < b THEN QuotientExponent(2 * a, b) - 1
    ELSE IF a >= 2 * b THEN QuotientExponent(a, 2 * b) + 1
    ELSE 0

\* The double step is m * 2^(e - 52), m being a * 2^(52 - e) / b rounded to
\* the nearest integer, halves to the even one.  StepDeficit is the remainder
\* of that division when m was rounded down, so that
\* a / b - step = StepDeficit / (b * 2^(52 - e)), and 0 when step >= a / b.
StepDeficit(a, b) ==
    LET x == (a * PowerOfTwoMod(52 - QuotientExponent(a, b), 2 * b)) % (2 * b)
        r == x % b
        odd == (x - r) \div b
    IN  IF 2 * r < b \/ (2 * r = b /\ odd = 0) THEN r ELSE 0

\* floor of the double product i * step, d being StepDeficit(a, b) and e the
\* exponent of the step.  A quotient i * a / b that is no integer lies at
\* least 1 / b from the next one, far beyond the rounding of the two
\* operations, and its floor is exact.  An integer quotient k is met from
\* below when the step was rounded down: the product is rounded back to k
\* only if it lies within half a unit in the last place under k, and
\* otherwise the floor is k - 1.
FloorOfProduct(i, a, b, d, e) ==
    LET k == (i * a) \div b
        j == Log2Floor(k)
        halves == IF k = 2 ^ j THEN 4 ELSE 2
    IN  IF (i * a) % b # 0 \/ k = 0 \/ d = 0 THEN k
        ELSE IF halves * i * d > b * 2 ^ (j - e) THEN k - 1
        ELSE k

\* variant: np.linspace(..., endpoint=False), the stop value left out
LinspaceIntNoEndpoint(n, num) ==
    [i \in 1..num |-> ((i - 1) * (n - 1)) \div num]

\* np.linspace(0, n - 1, num, dtype=int): num evenly spaced positions, cut to
\* integers, the last one being n - 1 itself
LinspaceInt(n, num) ==
    LET a == n - 1
        b == num - 1
        d == IF a <= 0 \/ b <= 0 THEN 0 ELSE StepDeficit(a, b)
        e == IF a <= 0 \/ b <= 0 THEN 0 ELSE QuotientExponent(a, b)
    IN  [i \in 1..num |->
            IF num = 1 THEN 0
            ELSE IF i = num THEN a
            ELSE IF a <= 0 THEN 0
            ELSE FloorOfProduct(i - 1, a, b, d, e)]

\* np.unique of an index array: its values, ascending, without repeats
RECURSIVE Ascending(_)
Ascending(set) ==
    IF set = {} THEN <<>>
    ELSE LET lo == CHOOSE a \in set : \A c \in set : a <= c
         IN  <<lo>> \o Ascending(set \ {lo})

\* the values of a set of integers within lo..hi, ascending; the range is
\* halved so that the evaluation stays shallow
RECURSIVE AscendingIn(_, _, _)
AscendingIn(set, lo, hi) ==
    IF set = {} THEN <<>>
    ELSE IF lo >= hi THEN <<lo>>
    ELSE AscendingIn({v \in set : v <= (lo + hi) \div 2}, lo, (lo + hi) \div 2)
         \o AscendingIn({v \in set : v > (lo + hi) \div 2}, (lo + hi) \div 2 + 1, hi)

\* np.unique of a non-decreasing index array
NpUnique(idx) ==
    IF Len(idx) = 0 THEN <<>>
    ELSE AscendingIn({idx[i] : i \in 1..Len(idx)}, idx[1], idx[Len(idx)])

\* variant: the last index is not restored after np.unique
IndicesWithoutLast(n, mp) == NpUnique(LinspaceInt(n, mp))

\* the 0-based indices kept when n > max_points
DownsampleIndices(n, mp) ==
    LET indices == NpUnique(LinspaceInt(n, mp))
    IN  IF indices[Len(indices)] # n - 1 THEN Append(indices, n - 1) ELSE indices

\* a[indices] for 0-based indices
Take(a, indices) == Force([i \in 1..Len(indices) |-> a[indices[i] + 1]])

\* downsample(x, y, max_points): the pair of lists returned
downsample(x, y, mp) ==
    LET n == Len(x)
        indices == DownsampleIndices(n, mp)
    IN  IF n <= mp THEN <<x, y>>
        ELSE <<Take(x, indices), Take(y, indices)>>

\* downsample_single(arr, max_points)
downsample_single(a, mp) ==
    LET n == Len(a)
        indices == DownsampleIndices(n, mp)
    IN  IF n <= mp THEN a ELSE Take(a, indices)

----------------------------------------------------------------------------
(* basic_stats.py.  Arrays of finite numbers are lists of halves. *)

\* quantiles are reported in units of 1/(2*QUnit)
QUnit == 4 * 5

\* is_integer_like: non-empty and every value equal to its rounded value
is_integer_like(a) == Len(a) > 0 /\ \A i \in 1..Len(a) : a[i] % 2 = 0

\* variant: the order statistic is taken from the unsorted array
PercentileUnsorted(a, p) ==
    a[((Len(a) - 1) * p) \div 100 + 1] * QUnit

\* variant: the order statistic at ceil((n-1)*p/100)
PercentileHigher(a, p) ==
    NpSort(a)[((Len(a) - 1) * p + 99) \div 100 + 1] * QUnit

\* np.percentile(arr, p, method='lower'): the order statistic at floor((n-1)*p/100)
PercentileLower(a, p) ==
    NpSort(a)[((Len(a) - 1) * p) \div 100 + 1] * QUnit

\* np.percentile(arr, p): linear interpolation between order statistics
PercentileLinear(a, p) ==
    LET sorted == NpSort(a)
        pos == (Len(a) - 1) * p
        i == pos \div 100
        gamma == pos % 100
    IN  IF gamma = 0 THEN sorted[i + 1] * QUnit
        ELSE sorted[i + 1] * QUnit + (gamma * (sorted[i + 2] - sorted[i + 1])) \div 5

\* np.median: the middle value, or the mean of the two middle values
NpMedian(a) ==
    LET sorted == NpSort(a)
        n == Len(a)
    IN  IF n % 2 = 1 THEN sorted[(n + 1) \div 2] * QUnit
        ELSE (sorted[n \div 2] + sorted[n \div 2 + 1]) * (QUnit \div 2)

CountOf(a, val) == Cardinality({i \in 1..Len(a) : a[i] = val})

\* variant: the largest of the most frequent values
ModeLargestOnTie(a) ==
    LET vals == {a[i] : i \in 1..Len(a)}
        modes == {x \in vals : \A y \in vals : CountOf(a, y) <= CountOf(a, x)}
    IN  CHOOSE m \in modes : \A x \in modes : x <= m

\* mode_discrete: the most frequent value, the smallest on a tie (in halves)
mode_discrete(a) ==
    LET vals == {a[i] : i \in 1..Len(a)}
        max_count == CHOOSE c \in {CountOf(a, x) : x \in vals} :
                        \A x \in vals : CountOf(a, x) <= c
        modes == {x \in vals : CountOf(a, x) = max_count}
    IN  CHOOSE m \in modes : \A x \in modes : m <= x

\* np.histogram(arr, bins): the 0-based bin of a value over [lo, hi], the last
\* bin closed on the right; a constant array is binned over [lo - 0.5, hi + 0.5]
HistBin(val, lo, hi, bins) ==
    IF hi = lo THEN ((val - lo + 1) * bins) \div 2
    ELSE IF val = hi THEN bins - 1
    ELSE ((val - lo) * bins) \div (hi - lo)

HistCounts(a, lo, hi, bins) ==
    [j \in 1..bins |-> Cardinality({i \in 1..Len(a) : HistBin(a[i], lo, hi, bins) = j - 1})]

\* mode_continuous: the midpoint of the first fullest bin, as the fraction
\* num/den of a unit
mode_continuous(a, bins) ==
    LET nb == Min2(bins, Max2(1, Len(a)))
        lo == SeqMin(a)
        hi == SeqMax(a)
        counts == HistCounts(a, lo, hi, nb)
        top == SeqMax(counts)
        i == CHOOSE j \in 1..nb : counts[j] = top /\ \A q \in 1..(j - 1) : counts[q] # top
    IN  IF hi = lo THEN [num |-> (lo - 1) * nb + (2 * i - 1), den |-> 2 * nb]
        ELSE [num |-> 2 * lo * nb + (2 * i - 1) * (hi - lo), den |-> 4 * nb]

\* basic_stats(arr) for a non-empty array of finite numbers.  mean, variance
\* and mode are fractions; median, min, max and the quantiles are in units of
\* 1/(2*QUnit).  std, skewness and kurtosis are real-valued and not modelled.
basic_stats(a) ==
    LET discrete == is_integer_like(a)
        n == Len(a)
        total == SeqSum(a)
        squares == SeqSum([i \in 1..n |-> a[i] * a[i]])
    IN  [mean |-> [num |-> total, den |-> 2 * n],
         median |-> IF discrete THEN PercentileLower(a, 50) ELSE NpMedian(a),
         mode |-> IF discrete THEN [num |-> mode_discrete(a), den |-> 2]
                  ELSE mode_continuous(a, 50),
         variance |-> IF n > 1 THEN [num |-> n * squares - total * total,
                                     den |-> 4 * n * (n - 1)]
                      ELSE [num |-> 0, den |-> 1],
         min |-> SeqMin(a) * QUnit,
         max |-> SeqMax(a) * QUnit,
         q25 |-> IF discrete THEN PercentileLower(a, 25) ELSE PercentileLinear(a, 25),
         q50 |-> IF discrete THEN PercentileLower(a, 50) ELSE PercentileLinear(a, 50),
         q75 |-> IF discrete THEN PercentileLower(a, 75) ELSE PercentileLinear(a, 75),
         q95 |-> IF discrete THEN PercentileLower(a, 95) ELSE PercentileLinear(a, 95)]

----------------------------------------------------------------------------
(* The analysis blocks of one run.  a is a non-empty list of halves. *)

NaNFloat == [nan |-> TRUE, x |-> 0]
RealFloat(x) == [nan |-> FALSE, x |-> x]

IsConstant(a) == \A i \in 1..Len(a) : a[i] = a[1]

\* critical values of the exact two-sided Kolmogorov-Smirnov distribution at
\* 0.05 for n = 1..10, in units of 1/100000 (scipy.stats.kstest p-value)
KsCrit05 == <<97500, 84189, 70760, 62394, 56328, 51926, 48342, 45427, 43001, 40925>>

\* n * (hi - lo) * D, D the K-S distance of the sample to uniform(lo, hi)
KsDistanceNum(a) ==
    LET sorted == NpSort(a)
        n == Len(a)
        lo == sorted[1]
        range == sorted[n] - lo
        dev == [i \in 1..n |->
                  Max2(i * range - n * (sorted[i] - lo),
                       n * (sorted[i] - lo) - (i - 1) * range)]
    IN  SeqMax(dev)

\* kstest(arr, 'uniform', args=(min, max - min)): the statistic as a fraction
\* and the p-value on the grid {<= 0.05, > 0.05}; both NaN when max = min
KsUniform(a) ==
    LET n == Len(a)
        range == SeqMax(a) - SeqMin(a)
        crit == IF n <= 10 THEN KsCrit05[n] ELSE 13581000 \div ISqrt(n * 10000)
    IN  IF range = 0 THEN [ks_stat |-> [nan |-> TRUE, num |-> 0, den |-> 1], ks_p |-> NaNFloat]
        ELSE [ks_stat |-> [nan |-> FALSE, num |-> KsDistanceNum(a), den |-> n * range],
              ks_p |-> IF KsDistanceNum(a) * 100000 >= crit * n * range
                       THEN RealFloat(KsAlpha) ELSE RealFloat(10000)]

\* ks_p > 0.05, false for NaN
KsPassed(ks) == ~ks.ks_p.nan /\ ks.ks_p.x > KsAlpha

\* stats.gaussian_kde(arr): the exception it raises, or "" when it builds
GaussianKdeRaises(a) ==
    IF Len(a) <= 1 THEN "ValueError"
    ELSE IF IsConstant(a) THEN "LinAlgError"
    ELSE ""

\* variant: the quantiles at the 99 probabilities 0.01, 0.02, ..., 0.99
TheoreticalQuantilesPercentiles(a) ==
    LET lo == SeqMin(a)
        range == SeqMax(a) - lo
    IN  [i \in 1..99 |-> [num |-> 100 * lo + range * i, den |-> 200]]

\* uniform.ppf(np.linspace(0.01, 0.99, n), loc=min, scale=max - min)
TheoreticalQuantiles(a) ==
    LET n == Len(a)
        lo == SeqMin(a)
        range == SeqMax(a) - lo
    IN  [i \in 1..n |->
           IF n = 1 THEN [num |-> 100 * lo + range, den |-> 200]
           ELSE [num |-> 100 * (n - 1) * lo + range * ((n - 1) + 98 * (i - 1)),
                 den |-> 200 * (n - 1)]]

distribution_analysis(a) ==
    LET qq == downsample(NpSort(a), TheoreticalQuantiles(a), MAX_CHART_POINTS)
    IN  [is_uniform |-> KsUniform(a),
         histogram |-> [counts |-> HistCounts(a, SeqMin(a), SeqMax(a), 50)],
         kde |-> [points |-> Min2(MAX_CHART_POINTS, Len(a) + 1)],
         qq_plot |-> [sample |-> qq[1], theoretical |-> qq[2]]]

\* the ECDF heights i/n of a sample of n values
EcdfY(n) == [i \in 1..n |-> [num |-> i, den |-> n]]

range_behavior(a) ==
    LET lo == SeqMin(a)
        hi == SeqMax(a)
        ecdf == downsample(NpSort(a), EcdfY(Len(a)), MAX_CHART_POINTS)
        near_min == Cardinality({i \in 1..Len(a) : 100 * a[i] <= 100 * lo + (hi - lo)})
        near_max == Cardinality({i \in 1..Len(a) : 100 * a[i] >= 100 * hi - (hi - lo)})
    IN  [ecdf |-> [x |-> ecdf[1], y |-> ecdf[2]],
         boundaries |-> [min |-> lo, max |-> hi,
                         near_min_count |-> near_min, near_max_count |-> near_max],
         edge_histogram |-> [counts |-> HistCounts(a, lo, hi, 20)]]

\* np.corrcoef(arr[:-lag], arr[lag:])[0, 1] as its sign and its square
\* sq_num/sq_den; NaN (a side with no variance) is undefined = TRUE
Autocorr(a, lag) ==
    LET m == Len(a) - lag
        xs == SubSeq(a, 1, m)
        ys == SubSeq(a, lag + 1, Len(a))
        cov == m * SeqSum([i \in 1..m |-> xs[i] * ys[i]]) - SeqSum(xs) * SeqSum(ys)
        vx == m * SeqSum([i \in 1..m |-> xs[i] * xs[i]]) - SeqSum(xs) * SeqSum(xs)
        vy == m * SeqSum([i \in 1..m |-> ys[i] * ys[i]]) - SeqSum(ys) * SeqSum(ys)
    IN  IF vx = 0 \/ vy = 0 THEN [undefined |-> TRUE, sign |-> 0, sq_num |-> 0, sq_den |-> 1]
        ELSE [undefined |-> FALSE, sign |-> Sign(cov), sq_num |-> cov * cov, sq_den |-> vx * vy]

\* the value reported for a lag: the correlation, 0.0 when it is NaN or the
\* lag is not below the length
ReportedCorr(c) ==
    IF c.undefined THEN [sign |-> 0, sq_num |-> 0, sq_den |-> 1]
    ELSE [sign |-> c.sign, sq_num |-> c.sq_num, sq_den |-> c.sq_den]

AutocorrValue(a, lag) ==
    IF lag < Len(a) THEN ReportedCorr(Autocorr(a, lag))
    ELSE [sign |-> 0, sq_num |-> 0, sq_den |-> 1]

\* variant: the number of lags is not capped at 50
MaxLagUncapped(a) == Len(a) \div 4

\* max_lag = min(50, len(arr) // 4)
MaxLag(a) == Min2(50, Len(a) \div 4)

independence_analysis(a) ==
    LET n == Len(a)
        lags == [i \in 1..MaxLag(a) |-> i]
        scatter == downsample(SubSeq(a, 1, n - 1), SubSeq(a, 2, n), MAX_CHART_POINTS)
    IN  [autocorrelation |-> [lags |-> lags,
                              values |-> [i \in 1..MaxLag(a) |-> AutocorrValue(a, i)]],
         lag1_scatter |-> [x |-> scatter[1], y |-> scatter[2]],
         time_series |-> [index |-> downsample_single([i \in 1..n |-> i - 1], MAX_CHART_POINTS),
                          values |-> downsample_single(a, MAX_CHART_POINTS)]]

\* variant: four chunks of floor(n/4) elements, the remainder dropped
ChunkBoundsEqualSize(n, c) ==
    <<(c - 1) * (n \div 4) + 1, c * (n \div 4)>>

\* variant: three chunks of floor(n/4) elements, the last chunk takes the rest
ChunkBoundsRemainderLast(n, c) ==
    <<(c - 1) * (n \div 4) + 1, IF c = 4 THEN n ELSE c * (n \div 4)>>

\* np.array_split(arr, 4): the 1-based bounds <<first, last>> of chunk c in 1..4;
\* the first n mod 4 chunks hold one element more
ChunkBounds(n, c) ==
    LET base == n \div 4
        extra == n % 4
        before == (c - 1) * base + Min2(c - 1, extra)
        size == base + (IF c <= extra THEN 1 ELSE 0)
    IN  <<before + 1, before + size>>

\* variant: the window of a label ends at the label (center=False)
RollingWindowTrailing(i, w) == <<i - w + 2, i + 1>>

\* df.rolling(window=w, center=True): the 1-based bounds <<first, last>> of the
\* window of the 0-based label i; pandas puts (w - 1) // 2 elements after the
\* label and the other w // 2 before it
RollingWindow(i, w) == <<i - (w \div 2) + 1, i + ((w - 1) \div 2) + 1>>

\* the window of label i lies inside the n values
WindowComplete(n, w, i) == RollingWindow(i, w)[1] >= 1 /\ RollingWindow(i, w)[2] <= n

\* .mean() at label i: NaN unless the window holds w values
RollingMean(a, w, i) ==
    IF ~WindowComplete(Len(a), w, i) THEN [nan |-> TRUE, num |-> 0, den |-> 1]
    ELSE [nan |-> FALSE,
          num |-> SeqSum(SubSeq(a, RollingWindow(i, w)[1], RollingWindow(i, w)[2])),
          den |-> 2 * w]

\* .std() at label i is NaN: the window does not hold w values, or holds one
RollingStdIsNaN(a, w, i) == ~WindowComplete(Len(a), w, i) \/ w < 2

stationarity_analysis(a) ==
    LET n == Len(a)
        window_size == Max2(10, n \div 20)
        rolling_mean == Force([i \in 1..n |-> RollingMean(a, window_size, i - 1)])
        valid == {i \in 0..(n - 1) :
                    ~(rolling_mean[i + 1].nan \/ RollingStdIsNaN(a, window_size, i))}
        idx_valid == AscendingIn(valid, 0, n - 1)
        rm_valid_vals == Force([k \in 1..Len(idx_valid) |-> rolling_mean[idx_valid[k] + 1]])
        rs_valid_vals == Force([k \in 1..Len(idx_valid) |->
                                  [nan |-> RollingStdIsNaN(a, window_size, idx_valid[k])]])
        rm == downsample(idx_valid, rm_valid_vals, MAX_CHART_POINTS)
        rs == downsample(idx_valid, rs_valid_vals, MAX_CHART_POINTS)
        kept == {c \in 1..4 : ChunkBounds(n, c)[1] <= ChunkBounds(n, c)[2]}
        chunk_stats == [j \in 1..Cardinality(kept) |->
            LET c == CHOOSE q \in kept : Cardinality({r \in kept : r < q}) = j - 1
                chunk == SubSeq(a, ChunkBounds(n, c)[1], ChunkBounds(n, c)[2])
            IN  [chunk |-> c, mean |-> [num |-> SeqSum(chunk), den |-> 2 * Len(chunk)],
                 min |-> SeqMin(chunk), max |-> SeqMax(chunk)]]
    IN  [rolling_mean |-> [index |-> rm[1], values |-> rm[2]],
         rolling_std |-> [index |-> rm[1], values |-> rs[2]],
         chunks |-> chunk_stats]

\* the strictly positive bins of np.fft.fftfreq(n): k/n for 0 < k < n/2
spectral_analysis(a) ==
    LET n == Len(a)
        positive == (n - 1) \div 2
    IN  [frequencies |-> [k \in 1..positive |-> [num |-> k, den |-> n]]]

\* StatsAnalyzer.analyze(numbers, provider): the value returned or the exception
\* raised.  basic_stats raises on an empty array (np.min) and on NaN or Inf
\* (np.histogram in mode_continuous); distribution_analysis raises where
\* gaussian_kde does.
analyze(nums, provider) ==
    LET a == Halves(nums)
    IN  IF Len(nums) = 0
        THEN Raised("ValueError", "zero-size array to reduction operation")
        ELSE IF \E i \in 1..Len(nums) : IsNanOrInf(nums[i])
        THEN Raised("ValueError", "autodetected range is not finite")
        ELSE IF GaussianKdeRaises(a) = "ValueError"
        THEN Raised("ValueError", "dataset input should have multiple elements")
        ELSE IF GaussianKdeRaises(a) = "LinAlgError"
        THEN Raised("LinAlgError", "singular data covariance matrix")
        ELSE Returned([provider |-> provider,
                       count |-> Len(nums),
                       basic_stats |-> basic_stats(a),
                       distribution |-> distribution_analysis(a),
                       range_behavior |-> range_behavior(a),
                       independence |-> independence_analysis(a),
                       stationarity |-> stationarity_analysis(a),
                       spectral |-> spectral_analysis(a),
                       nist_tests |-> nist_tests(nums)])

----------------------------------------------------------------------------
(* analyzer.py: StatsAnalyzer.analyze_multi_run *)

\* step 1: a run that is empty or holds an element that is not an int or float
RunIsEmpty(run) == Len(run) = 0
RunIsNonNumeric(run) == \E i \in 1..Len(run) : ~IsNumber(run[i])

\* the message of the validation loop for the run at 0-based position idx
ValidationMessage(idx, run) ==
    IF RunIsEmpty(run) THEN "Run " \o ToString(idx + 1) \o " is empty"
    ELSE "Run " \o ToString(idx + 1) \o " contains non-numeric values"

\* variant: the validation loop reports the last failing run
LastInvalidRun(rs) ==
    CHOOSE idx \in 0..(Len(rs) - 1) :
        /\ RunIsEmpty(rs[idx + 1]) \/ RunIsNonNumeric(rs[idx + 1])
        /\ \A j \in (idx + 1)..(Len(rs) - 1) :
              ~(RunIsEmpty(rs[j + 1]) \/ RunIsNonNumeric(rs[j + 1]))

\* the 0-based position the validation loop stops at: the first failing run
FirstInvalidRun(rs) ==
    CHOOSE idx \in 0..(Len(rs) - 1) :
        /\ RunIsEmpty(rs[idx + 1]) \/ RunIsNonNumeric(rs[idx + 1])
        /\ \A j \in 0..(idx - 1) : ~(RunIsEmpty(rs[j + 1]) \/ RunIsNonNumeric(rs[j + 1]))

\* variant: the analysis loop tests np.isnan only
SkipRunNanOnly(run) == Len(run) = 0 \/ \E i \in 1..Len(run) : run[i].k = "nan"

\* the "continue" of the analysis loop: an empty run or one holding NaN or Inf
SkipRun(run) == Len(run) = 0 \/ \E i \in 1..Len(run) : IsNanOrInf(run[i])

\* the 0-based positions of the runs the analysis loop does not skip, ascending
RetainedRuns(rs) == Ascending({idx \in 0..(Len(rs) - 1) : ~SkipRun(rs[idx + 1])})

\* variant: the tag is the 0-based loop index
RunLabelZeroBased(run_idx) == run_idx

\* the tag of a table entry: int(run_idx + 1)
RunLabel(run_idx) == run_idx + 1

\* |corr| > 0.2 for a correlation given by its square
IsSignificant(c) == 25 * c.sq_num > c.sq_den

\* the autocorrelation_table entry of a run from its correlations at the lags
\* 1..min(50, n // 4): the lags whose |corr| exceeds 0.2 (["None"] when there
\* is none) and the largest corr^2
AutocorrEntry(run_idx, autocorrs) ==
    LET lags == 1..Len(autocorrs)
        significant == Ascending({lag \in lags : IsSignificant(autocorrs[lag])})
        top == IF lags = {} THEN [sign |-> 0, sq_num |-> 0, sq_den |-> 1]
               ELSE autocorrs[CHOOSE lag \in lags : \A other \in lags :
                        autocorrs[other].sq_num * autocorrs[lag].sq_den
                          <= autocorrs[lag].sq_num * autocorrs[other].sq_den]
    IN  [run |-> RunLabel(run_idx),
         significant_lags |-> IF significant = <<>> THEN <<"None">> ELSE significant,
         max_correlation |-> [sq_num |-> top.sq_num, sq_den |-> top.sq_den]]

AutocorrInfo(run_idx, a) ==
    AutocorrEntry(run_idx, Force([lag \in 1..MaxLag(a) |-> AutocorrValue(a, lag)]))

\* the ecdf_all_runs entry of a run
EcdfEntry(run_idx, a) ==
    LET ecdf == downsample(NpSort(a), EcdfY(Len(a)), MAX_CHART_POINTS)
    IN  [run |-> RunLabel(run_idx), x |-> ecdf[1], y |-> ecdf[2]]

\* variant: the tally counts the retained runs, passed or not
CountAll(flags) == Len(flags)

\* sum(flags) for a list of booleans
CountTrue(flags) == Cardinality({i \in 1..Len(flags) : flags[i]})

\* f"{count}/{num_runs}"
PassedFraction(count, declared) == ToString(count) \o "/" \o ToString(declared)

\* the test_results block from the five lists of pass flags
TestResults(ks, rt, mr, lr, ae, declared) ==
    [ks_uniformity_passed |-> PassedFraction(CountTrue(ks), declared),
     runs_test_passed |-> PassedFraction(CountTrue(rt), declared),
     binary_matrix_rank_test_passed |-> PassedFraction(CountTrue(mr), declared),
     longest_run_of_ones_test_passed |-> PassedFraction(CountTrue(lr), declared),
     approximate_entropy_test_passed |-> PassedFraction(CountTrue(ae), declared),
     ks_passed_count |-> CountTrue(ks),
     runs_test_passed_count |-> CountTrue(rt),
     binary_matrix_rank_test_passed_count |-> CountTrue(mr),
     longest_run_of_ones_test_passed_count |-> CountTrue(lr),
     approximate_entropy_test_passed_count |-> CountTrue(ae)]

\* what one pass of the analysis loop appends to the lists, given the run's
\* NIST results and the outcome of self.analyze(run_numbers, provider)
LoopEntry(run_idx, a, nist_results, analysis) ==
    [mean |-> [num |-> SeqSum(a), den |-> 2 * Len(a)],
     ks_passed |-> KsPassed(KsUniform(a)),
     runs_test_passed |-> nist_results.runs_test.passed,
     matrix_rank_test_passed |-> nist_results.binary_matrix_rank_test.passed,
     longest_run_test_passed |-> nist_results.longest_run_of_ones_test.passed,
     approximate_entropy_test_passed |-> nist_results.approximate_entropy_test.passed,
     autocorr_info |-> AutocorrInfo(run_idx, a),
     ecdf |-> EcdfEntry(run_idx, a),
     analysis |-> analysis]

\* one pass of the analysis loop over a retained run
LoopBody(run_idx, run, provider) ==
    LoopEntry(run_idx, Halves(run), nist_tests(run), analyze(run, provider))

\* the analysis loop: one pass per retained run, in input order
RunLoop(rs, kept, provider) ==
    Force([j \in 1..Len(kept) |-> LoopBody(kept[j], rs[kept[j] + 1], provider)])

\* all_numbers: the elements of every submitted run, in order
RECURSIVE AllNumbers(_)
AllNumbers(rs) == IF rs = <<>> THEN <<>> ELSE Head(rs) \o AllNumbers(Tail(rs))

\* the frequency histogram of the combined stream: min(50, distinct values) bins
FrequencyHistogram(a) ==
    LET num_bins == Min2(50, Cardinality({a[i] : i \in 1..Len(a)}))
    IN  [frequencies |-> HistCounts(a, SeqMin(a), SeqMax(a), num_bins),
         num_bins |-> num_bins]

\* compute_distribution_deviation_metrics(runs): the runs it measures are the
\* finite ones with at least two values
DeviationRuns(rs) ==
    Ascending({idx \in 0..(Len(rs) - 1) : ~SkipRun(rs[idx + 1]) /\ Len(rs[idx + 1]) >= 2})

\* the deviation metrics are aggregated in thousandths
DevUnit == 10 ^ 3

\* normalize_to_unit(arr): u[i] = x[i] / den; a constant array becomes all 0.5
normalize_to_unit(a) ==
    IF Len(a) = 0 THEN [den |-> 1, x |-> <<>>]
    ELSE IF SeqMax(a) <= SeqMin(a) THEN [den |-> 2, x |-> [i \in 1..Len(a) |-> 1]]
    ELSE [den |-> SeqMax(a) - SeqMin(a), x |-> [i \in 1..Len(a) |-> a[i] - SeqMin(a)]]

\* |i/n - u[i]| for the sorted u = s/den, in units of 1/(n*den)
EcdfAbsDev(s, den, i) == Abs(i * den - Len(s) * s[i])

\* ecdf_ks_statistic_normalized(u): the largest of |i/n - u[i]| and |(i-1)/n - u[i]|
ecdf_ks_statistic_normalized(u) ==
    LET s == NpSort(u.x)
        n == Len(s)
        devs == {EcdfAbsDev(s, u.den, i) : i \in 1..n}
                \cup {Abs((i - 1) * u.den - n * s[i]) : i \in 1..n}
    IN  [num |-> CHOOSE m \in devs : \A d \in devs : d <= m, den |-> n * u.den]

\* ecdf_mad_normalized(u): the mean of |i/n - u[i]|
ecdf_mad_normalized(u) ==
    LET s == NpSort(u.x)
        n == Len(s)
    IN  [num |-> SeqSum([i \in 1..n |-> EcdfAbsDev(s, u.den, i)]), den |-> n * n * u.den]

\* u >= boundaries[k] for u = x/den, with boundaries = np.linspace(0, 1, 6) =
\* 0, 0.2, 0.4, 0.6000000000000001, 0.8, 1 and k in 0..5: boundaries[3] is the
\* double next above 0.6, so u = 0.6 lies below it
AtOrAboveBoundary(x, den, k) == IF k = 3 THEN 5 * x > 3 * den ELSE 5 * x >= k * den

\* u <= boundaries[k]
AtOrBelowBoundary(x, den, k) == 5 * x <= k * den

\* variant: the last region is closed-open like the others
RegionMaskClosedOpen(x, den, i, regions) ==
    AtOrAboveBoundary(x, den, i) /\ ~AtOrAboveBoundary(x, den, i + 1)

\* mask of region i (0-based) at u = x/den: (u >= low) & (u <= high) for the
\* last region, (u >= low) & (u < high) for the others
RegionMask(x, den, i, regions) ==
    LET is_last == i = regions - 1
    IN  IF is_last
        THEN AtOrAboveBoundary(x, den, i) /\ AtOrBelowBoundary(x, den, i + 1)
        ELSE AtOrAboveBoundary(x, den, i) /\ ~AtOrAboveBoundary(x, den, i + 1)

\* ecdf_regional_deviation(u, regions): per region the mean of |i/n - u[i]|
\* over its points, 0.0 for a region without points
ecdf_regional_deviation(u, regions) ==
    LET s == NpSort(u.x)
        n == Len(s)
    IN  [r \in 1..regions |->
            LET mask == {i \in 1..n : RegionMask(s[i], u.den, r - 1, regions)}
            IN  IF mask = {} THEN [num |-> 0, den |-> 1]
                ELSE [num |-> SeqSum([i \in 1..n |->
                                        IF i \in mask THEN EcdfAbsDev(s, u.den, i) ELSE 0]),
                      den |-> n * u.den * Cardinality(mask)]]

\* the sum of (u[i] - (i - 0.5)/n)^2 in units of 1/(2*n*den)^2
QqSsRes(s, den) ==
    SeqSum([i \in 1..Len(s) |->
              (2 * Len(s) * s[i] - (2 * i - 1) * den) * (2 * Len(s) * s[i] - (2 * i - 1) * den)])

\* the sum of (u[i] - mean(u))^2 in units of 1/(n*den)^2
QqSsTot(s) ==
    SeqSum([i \in 1..Len(s) |->
              (Len(s) * s[i] - SeqSum(s)) * (Len(s) * s[i] - SeqSum(s))])

\* variant: 1 + ss_res/ss_tot
QqRSquaredSignFlipped(u) ==
    LET s == NpSort(u.x)
    IN  IF Len(s) < 2 \/ QqSsTot(s) <= 0 THEN [nan |-> TRUE, num |-> 0, den |-> 1]
        ELSE [nan |-> FALSE, num |-> 4 * QqSsTot(s) + QqSsRes(s, u.den),
              den |-> 4 * QqSsTot(s)]

\* qq_r_squared_normalized(u): 1 - ss_res/ss_tot, NaN when ss_tot <= 0
qq_r_squared_normalized(u) ==
    LET s == NpSort(u.x)
    IN  IF Len(s) < 2 \/ QqSsTot(s) <= 0 THEN [nan |-> TRUE, num |-> 0, den |-> 1]
        ELSE [nan |-> FALSE, num |-> 4 * QqSsTot(s) - QqSsRes(s, u.den),
              den |-> 4 * QqSsTot(s)]

\* qq_mse_normalized(u): the mean of (u[i] - (i - 0.5)/n)^2
qq_mse_normalized(u) ==
    LET s == NpSort(u.x)
    IN  [num |-> QqSsRes(s, u.den), den |-> 4 * Len(s) * Len(s) * Len(s) * u.den * u.den]

\* a per-run metric as a float in thousandths
MetricFloat(r) ==
    IF "nan" \in DOMAIN r /\ r.nan THEN NaNFloat
    ELSE RealFloat((r.num * DevUnit) \div r.den)

\* np.mean of a list of floats: NaN as soon as one element is NaN
NpMean(vals) ==
    IF \E j \in 1..Len(vals) : vals[j].nan THEN NaNFloat
    ELSE RealFloat(SeqSum([j \in 1..Len(vals) |-> vals[j].x]) \div Len(vals))

\* np.std of a list of floats (ddof = 0)
NpStd(vals) ==
    IF \E j \in 1..Len(vals) : vals[j].nan THEN NaNFloat
    ELSE LET k == Len(vals)
             total == SeqSum([j \in 1..k |-> vals[j].x])
             squares == SeqSum([j \in 1..k |-> vals[j].x * vals[j].x])
         IN  RealFloat(ISqrt((k * squares - total * total) \div (k * k)))

\* float(np.std(x)) if len(x) > 1 else 0.0
StdDevOrZero(vals) == IF Len(vals) > 1 THEN NpStd(vals) ELSE RealFloat(0)

\* safe_cv(x): 0.0 when the mean is 0 or NaN, else std / mean
safe_cv(vals) ==
    IF NpMean(vals).nan \/ NpMean(vals).x = 0 THEN RealFloat(0)
    ELSE IF NpStd(vals).nan THEN NaNFloat
    ELSE RealFloat((NpStd(vals).x * DevUnit) \div NpMean(vals).x)

\* empty_deviation_metrics()
empty_deviation_metrics ==
    [ecdf |-> [ks_statistic |-> [mean |-> RealFloat(0), std_dev |-> RealFloat(0),
                                 cv |-> RealFloat(0)],
               mad |-> [mean |-> RealFloat(0), std_dev |-> RealFloat(0),
                        cv |-> RealFloat(0)],
               regional_deviation |-> [mean |-> [r \in 1..5 |-> RealFloat(0)]]],
     qq |-> [r_squared |-> [mean |-> RealFloat(0), std_dev |-> RealFloat(0)],
             mse_from_diagonal |-> [mean |-> RealFloat(0), std_dev |-> RealFloat(0)]]]

\* the dictionary built from the per-run lists
DeviationAggregates(ks, mad, regional, r2, mse) ==
    [ecdf |-> [ks_statistic |-> [mean |-> NpMean(ks), std_dev |-> StdDevOrZero(ks),
                                 cv |-> safe_cv(ks)],
               mad |-> [mean |-> NpMean(mad), std_dev |-> StdDevOrZero(mad),
                        cv |-> safe_cv(mad)],
               regional_deviation |->
                   [mean |-> [r \in 1..5 |->
                                 NpMean([j \in 1..Len(regional) |-> regional[j][r]])]]],
     qq |-> [r_squared |-> [mean |-> NpMean(r2), std_dev |-> StdDevOrZero(r2)],
             mse_from_diagonal |-> [mean |-> NpMean(mse), std_dev |-> StdDevOrZero(mse)]]]

\* the normalized runs the loop measures, in order
NormalizedRuns(rs) ==
    Force([j \in 1..Len(DeviationRuns(rs)) |->
              normalize_to_unit(Halves(rs[DeviationRuns(rs)[j] + 1]))])

\* the per-run lists of the loop over the normalized runs us
DeviationOfUnits(us) ==
    IF Len(us) = 0 THEN empty_deviation_metrics
    ELSE DeviationAggregates(
            Force([j \in 1..Len(us) |-> MetricFloat(ecdf_ks_statistic_normalized(us[j]))]),
            Force([j \in 1..Len(us) |-> MetricFloat(ecdf_mad_normalized(us[j]))]),
            Force([j \in 1..Len(us) |->
                     [r \in 1..5 |-> MetricFloat(ecdf_regional_deviation(us[j], 5)[r])]]),
            Force([j \in 1..Len(us) |-> MetricFloat(qq_r_squared_normalized(us[j]))]),
            Force([j \in 1..Len(us) |-> MetricFloat(qq_mse_normalized(us[j]))]))

\* compute_distribution_deviation_metrics(runs) for runs of numbers
compute_distribution_deviation_metrics(rs) == DeviationOfUnits(NormalizedRuns(rs))

\* variant: count_per_run taken from the last run
CountPerRunOfLast(rs) == IF Len(rs) = 0 THEN 0 ELSE Len(rs[Len(rs)])

\* int(len(runs[0])) if runs else 0
CountPerRun(rs) == IF Len(rs) = 0 THEN 0 ELSE Len(rs[1])

\* the result dictionary built after the loop from its passes and the
\* combined stream
MultiRunResult(rs, provider, declared, passes, all_arr) ==
    [provider |-> provider,
     num_runs |-> declared,
     count_per_run |-> CountPerRun(rs),
     aggregate_stats |-> [mean |-> [values |-> [j \in 1..Len(passes) |-> passes[j].mean]]],
     combined_stream_stats |-> basic_stats(all_arr),
     distribution_deviation |-> compute_distribution_deviation_metrics(rs),
     test_results |-> TestResults(
         [j \in 1..Len(passes) |-> passes[j].ks_passed],
         [j \in 1..Len(passes) |-> passes[j].runs_test_passed],
         [j \in 1..Len(passes) |-> passes[j].matrix_rank_test_passed],
         [j \in 1..Len(passes) |-> passes[j].longest_run_test_passed],
         [j \in 1..Len(passes) |-> passes[j].approximate_entropy_test_passed],
         declared),
     autocorrelation_table |-> [j \in 1..Len(passes) |-> passes[j].autocorr_info],
     ecdf_all_runs |-> [j \in 1..Len(passes) |-> passes[j].ecdf],
     frequency_histogram |-> FrequencyHistogram(all_arr),
     combined_kde |-> [points |-> Min2(MAX_CHART_POINTS, Len(all_arr) + 1)],
     individual_analyses |-> [j \in 1..Len(passes) |-> passes[j].analysis.value]]

\* the call from the analysis loop on: an exception of self.analyze leaves the
\* loop at the first retained run that raises it; then "No valid runs", the
\* combined stream statistics (which raise on NaN or Inf), the combined KDE
AfterValidation(rs, provider, declared, passes, all_numbers) ==
    LET failing == {j \in 1..Len(passes) : passes[j].analysis.kind = "raised"}
    IN  IF failing # {}
        THEN passes[CHOOSE j \in failing : \A q \in failing : j <= q].analysis
        ELSE IF Len(passes) = 0
        THEN Raised("ValueError", "No valid runs to analyze")
        ELSE IF \E i \in 1..Len(all_numbers) : IsNanOrInf(all_numbers[i])
        THEN Raised("ValueError", "autodetected range is not finite")
        ELSE IF GaussianKdeRaises(Halves(all_numbers)) # ""
        THEN Raised(GaussianKdeRaises(Halves(all_numbers)), "gaussian_kde")
        ELSE Returned(MultiRunResult(rs, provider, declared, passes, Halves(all_numbers)))

\* analyze_multi_run(runs, provider, num_runs): the value returned or the
\* exception raised
analyze_multi_run(rs, provider, declared) ==
    IF Len(rs) = 0 THEN Raised("ValueError", "No runs provided")
    ELSE IF \E i \in 1..Len(rs) : RunIsEmpty(rs[i]) \/ RunIsNonNumeric(rs[i])
    THEN Raised("ValueError", ValidationMessage(FirstInvalidRun(rs), rs[FirstInvalidRun(rs) + 1]))
    ELSE AfterValidation(rs, provider, declared,
                         RunLoop(rs, RetainedRuns(rs), provider), AllNumbers(rs))

----------------------------------------------------------------------------
(* The analyzer as a state machine: a caller holds lists, submits them and  *)
(* calls analyze / analyze_multi_run on one StatsAnalyzer instance.         *)

MaxRuns == 2        \* longest runs list submitted
MaxDeclared == 1    \* largest num_runs declared
MaxCalls == 2       \* calls made on one submission

Provider == "openai"

RunEmpty == <<>>
RunNonNumeric == <<Fin(2), NonNumeric>>
RunWithNaN == <<Fin(2), NaN>>
RunWithInf == <<PosInf, Fin(4)>>
RunA == <<Fin(4), Fin(2), Fin(6)>>
RunB == <<Fin(0), Fin(0), Fin(0), Fin(12)>>
RunSingle == <<Fin(5)>>
RunPair == <<Fin(3), Fin(2)>>
RunConstant == <<Fin(4), Fin(4), Fin(4)>>
RunFifths == <<Fin(6), Fin(0), Fin(10), Fin(2), Fin(8), Fin(4)>>
RunSkewed == <<Fin(0), Fin(0), Fin(0), Fin(2), Fin(0), Fin(0), Fin(0), Fin(0)>>

\* the runs a caller submits to analyze_multi_run
RunPool == {RunEmpty, RunNonNumeric, RunWithNaN, RunWithInf, RunA, RunB}

\* the lists a caller hands to analyze
NumbersPool == {RunEmpty, RunWithNaN, RunA, RunB, RunSingle, RunPair, RunConstant}

\* StatsAnalyzer.__init__ sets no attribute
NoAttributes == {}

\* no request was received yet
NoBody == [json |-> "none"]

\* variant: the call sorts the caller's list in place
ListSortedInPlace(list) ==
    [i \in 1..Len(list) |-> Fin(NpSort(Halves(list))[i])]

\* the caller's list after a call: np.array(numbers) copies it, nothing
\* writes to it
ListAfterCall(list) == list

Init ==
    /\ op = "idle"
    /\ numbers = <<>>
    /\ runs = <<>>
    /\ num_runs = 0
    /\ analyzer = NoAttributes
    /\ binary_sequence = <<>>
    /\ test_param = 0
    /\ arr = <<>>
    /\ arr_y = <<>>
    /\ max_points = 1
    /\ calls = 0
    /\ first = [analyze |-> NoOutcome, analyze_multi_run |-> NoOutcome]
    /\ body = NoBody
    /\ stats_analyzer = "StatsAnalyzer"
    /\ result = NoOutcome

\* A caller holds one request at a time, a list of numbers or a list of runs
\* with a declared run count (analysis_service.py), and changing the request
\* starts a new series of calls.
NoCallYet == [analyze |-> NoOutcome, analyze_multi_run |-> NoOutcome]

\* the caller builds a list of numbers
NewNumbers(nums) ==
    /\ numbers' = nums
    /\ runs' = <<>>
    /\ num_runs' = 0
    /\ op' = "idle"
    /\ calls' = 0
    /\ first' = NoCallYet
    /\ result' = NoOutcome
    /\ UNCHANGED <<test_param, body, stats_analyzer, analyzer, binary_sequence, arr, arr_y,
                   max_points>>

\* the caller adds a run to the list of runs
AppendRun(run) ==
    /\ Len(runs) < MaxRuns
    /\ runs' = Append(runs, run)
    /\ numbers' = <<>>
    /\ op' = "idle"
    /\ calls' = 0
    /\ first' = NoCallYet
    /\ result' = NoOutcome
    /\ UNCHANGED <<test_param, body, stats_analyzer, num_runs, analyzer, binary_sequence,
                   arr, arr_y, max_points>>

\* the caller declares a run count
Declare(declared) ==
    /\ num_runs' = declared
    /\ op' = "idle"
    /\ calls' = 0
    /\ first' = NoCallYet
    /\ result' = NoOutcome
    /\ UNCHANGED <<test_param, body, stats_analyzer, numbers, runs, analyzer,
                   binary_sequence, arr, arr_y, max_points>>

\* analyzer.analyze(numbers, provider)
Analyze ==
    /\ calls < MaxCalls
    /\ op' = "analyze"
    /\ result' = analyze(numbers, Provider)
    /\ first' = IF first.analyze = NoOutcome
                THEN [first EXCEPT !.analyze = result'] ELSE first
    /\ calls' = calls + 1
    /\ numbers' = ListAfterCall(numbers)
    /\ UNCHANGED <<test_param, body, stats_analyzer, runs, num_runs, analyzer,
                   binary_sequence, arr, arr_y, max_points>>

\* analyzer.analyze_multi_run(runs, provider, num_runs)
AnalyzeMultiRun ==
    /\ calls < MaxCalls
    /\ op' = "analyze_multi_run"
    /\ result' = analyze_multi_run(runs, Provider, num_runs)
    /\ first' = IF first.analyze_multi_run = NoOutcome
                THEN [first EXCEPT !.analyze_multi_run = result'] ELSE first
    /\ calls' = calls + 1
    /\ runs' = [i \in 1..Len(runs) |-> ListAfterCall(runs[i])]
    /\ UNCHANGED <<test_param, body, stats_analyzer, numbers, num_runs, analyzer,
                   binary_sequence, arr, arr_y, max_points>>

Next ==
    \/ \E nums \in NumbersPool : NewNumbers(nums)
    \/ \E run \in RunPool : AppendRun(run)
    \/ \E declared \in 0..MaxDeclared : Declare(declared)
    \/ Analyze
    \/ AnalyzeMultiRun

Spec == Init /\ [][Next]_vars

----------------------------------------------------------------------------
(* The NIST tests called on a bit list *)

MaxBits == 4        \* longest bit list enumerated bit by bit

\* every bit list of at most n bits
ShortBits(n) == UNION {[1..len -> {0, 1}] : len \in 0..n}

\* n bits repeating a period that starts with duty ones
Periodic(n, period, duty) == [i \in 1..n |-> IF (i - 1) % period < duty THEN 1 ELSE 0]

\* lengths just below and at the minimum of each test: 10 * 2^2 bits, one
\* 128-bit block, one 32 x 32 matrix
TestLengths == {39, 40, 127, 128, 1023, 1024}

\* lengths of one matrix with trailing bits, two matrices, two with trailing bits
MatrixLengths == {1030, 2048, 2060}

\* the 1024 bits of the identity matrix with its leading 3 x 3 block replaced
\* by the rows 110, 011, 101
TriangleBits ==
    [i \in 1..1024 |->
        LET row == (i - 1) \div 32 + 1
            col == ((i - 1) % 32) + 1
        IN  IF row <= 3 /\ col <= 3
            THEN (IF col = row \/ col = (row % 3) + 1 THEN 1 ELSE 0)
            ELSE (IF row = col THEN 1 ELSE 0)]

\* 300 bits with a run of six 1s inside the first 128-bit block and a run of
\* eight 1s that lies half in the first block and half in the second
StraddleBits == [i \in 1..300 |-> IF i \in 10..15 \/ i \in 125..132 THEN 1 ELSE 0]

\* long bit lists: periodic ones (period 33 over 1024 bits is the identity
\* matrix, and its later 1024-bit slices are shifted identities), a matrix of
\* determinant 2, and the bits of lists of doubles
LongBits ==
    {Periodic(n, period, duty) : n \in TestLengths, period \in {2, 5, 33}, duty \in {0, 1, 3}}
    \cup {Periodic(n, 33, duty) : n \in MatrixLengths, duty \in {0, 1, 3}}
    \cup {TriangleBits, TriangleBits \o Periodic(40, 2, 1)}
    \cup {Periodic(n, 13, duty) : n \in {128, 300}, duty \in 5..10}
    \cup {StraddleBits}
    \cup {numbers_to_binary(nums) : nums \in {RunA, RunB, RunPair, RunConstant}}

NewBits(b) ==
    /\ binary_sequence' = b
    /\ numbers' = <<>>
    /\ op' = "idle"
    /\ result' = NoOutcome
    /\ test_param' = 0
    /\ UNCHANGED <<body, stats_analyzer, runs, num_runs, analyzer, arr, arr_y, max_points,
                   calls, first>>

MaxNums == 2        \* longest list of numbers encoded
MaxFloat == 2       \* largest absolute value of an encoded number, in halves

\* the numbers an array can hold: finite values, NaN and the infinities
FloatPool == {Fin(h) : h \in (0 - MaxFloat)..MaxFloat} \cup {NaN, PosInf, NegInf}

\* the caller extends the array of numbers by one
AppendNumber(e) ==
    /\ Len(numbers) < MaxNums
    /\ numbers' = Append(numbers, e)
    /\ binary_sequence' = <<>>
    /\ op' = "idle"
    /\ result' = NoOutcome
    /\ test_param' = 0
    /\ UNCHANGED <<body, stats_analyzer, runs, num_runs, analyzer, arr, arr_y, max_points,
                   calls, first>>

\* numbers_to_binary(numbers); nist_tests keeps the bits as binary_sequence
NumbersToBinary ==
    /\ binary_sequence' = numbers_to_binary(numbers)
    /\ op' = "numbers_to_binary"
    /\ result' = Returned(binary_sequence')
    /\ test_param' = 0
    /\ UNCHANGED <<body, stats_analyzer, numbers, runs, num_runs, analyzer, arr, arr_y,
                   max_points, calls, first>>

\* nist_tests(arr)
NistTests ==
    /\ binary_sequence' = numbers_to_binary(numbers)
    /\ op' = "nist_tests"
    /\ result' = Returned(nist_tests(numbers))
    /\ test_param' = 0
    /\ UNCHANGED <<body, stats_analyzer, numbers, runs, num_runs, analyzer, arr, arr_y,
                   max_points, calls, first>>

RunsTest ==
    /\ op' = "runs_test"
    /\ result' = Returned(runs_test(binary_sequence))
    /\ test_param' = 0
    /\ UNCHANGED <<body, stats_analyzer, numbers, runs, num_runs, analyzer,
                   binary_sequence, arr, arr_y,
                   max_points, calls, first>>

BinaryMatrixRankTest(matrix_size) ==
    /\ op' = "binary_matrix_rank_test"
    /\ test_param' = matrix_size
    /\ result' = Returned(binary_matrix_rank_test(binary_sequence, matrix_size))
    /\ UNCHANGED <<body, stats_analyzer, numbers, runs, num_runs, analyzer,
                   binary_sequence, arr, arr_y,
                   max_points, calls, first>>

LongestRunOfOnesTest(block_size) ==
    /\ op' = "longest_run_of_ones_test"
    /\ test_param' = block_size
    /\ result' = Returned(longest_run_of_ones_test(binary_sequence, block_size))
    /\ UNCHANGED <<body, stats_analyzer, numbers, runs, num_runs, analyzer,
                   binary_sequence, arr, arr_y,
                   max_points, calls, first>>

ApproximateEntropyTest(m) ==
    /\ op' = "approximate_entropy_test"
    /\ test_param' = m
    /\ result' = Returned(approximate_entropy_test(binary_sequence, m))
    /\ UNCHANGED <<body, stats_analyzer, numbers, runs, num_runs, analyzer,
                   binary_sequence, arr, arr_y,
                   max_points, calls, first>>

NextNist ==
    \/ \E b \in ShortBits(MaxBits) \cup LongBits : NewBits(b)
    \/ \E e \in FloatPool : AppendNumber(e)
    \/ NumbersToBinary
    \/ NistTests
    \/ RunsTest
    \/ \E matrix_size \in {16, 32} : BinaryMatrixRankTest(matrix_size)
    \/ \E block_size \in {8, 128} : LongestRunOfOnesTest(block_size)
    \/ ApproximateEntropyTest(2)

SpecNist == Init /\ [][NextNist]_vars

----------------------------------------------------------------------------
(* downsample and downsample_single called on arrays *)

MaxN == 9           \* longest array downsampled
MaxPoints == 5      \* largest max_points

\* the caller builds two arrays of n elements, x rising from a base, and
\* picks max_points
NewArrays(n, base, mp) ==
    /\ arr' = [i \in 1..n |-> base + i]
    /\ arr_y' = [i \in 1..n |-> 2 * i]
    /\ max_points' = mp
    /\ op' = "idle"
    /\ result' = NoOutcome
    /\ UNCHANGED <<test_param, body, stats_analyzer, numbers, runs, num_runs, analyzer,
                   binary_sequence, calls, first>>

Downsample ==
    /\ op' = "downsample"
    /\ result' = Returned(downsample(arr, arr_y, max_points))
    /\ UNCHANGED <<test_param, body, stats_analyzer, numbers, runs, num_runs, analyzer,
                   binary_sequence, arr, arr_y,
                   max_points, calls, first>>

DownsampleSingle ==
    /\ op' = "downsample_single"
    /\ result' = Returned(downsample_single(arr, max_points))
    /\ UNCHANGED <<test_param, body, stats_analyzer, numbers, runs, num_runs, analyzer,
                   binary_sequence, arr, arr_y,
                   max_points, calls, first>>

NextUtils ==
    \/ \E n \in 0..MaxN, base \in {0, 7}, mp \in 1..MaxPoints : NewArrays(n, base, mp)
    \/ Downsample
    \/ DownsampleSingle

SpecUtils == Init /\ [][NextUtils]_vars

\* the same calls, also on arrays long enough for the double step of
\* np.linspace to fall short of the exact quotient
LongArrayLengths == {31, 61, 123}
LongMaxPoints == {15, 16, 23, 27}

NextLinspace ==
    \/ \E n \in 0..MaxN, base \in {0, 7}, mp \in 1..MaxPoints : NewArrays(n, base, mp)
    \/ \E n \in LongArrayLengths, mp \in LongMaxPoints : NewArrays(n, 0, mp)
    \/ Downsample
    \/ DownsampleSingle

SpecLinspace == Init /\ [][NextLinspace]_vars

----------------------------------------------------------------------------
(* basic_stats called on an array of halves *)

MaxLen == 4         \* longest array of basic_stats
MaxHalf == 2        \* largest absolute value of an element, in halves

\* the caller extends the array by one value
AppendValue(val) ==
    /\ Len(arr) < MaxLen
    /\ arr' = Append(arr, val)
    /\ op' = "idle"
    /\ result' = NoOutcome
    /\ UNCHANGED <<test_param, body, stats_analyzer, numbers, runs, num_runs, analyzer,
                   binary_sequence, arr_y,
                   max_points, calls, first>>

\* the caller starts a new array
ClearArray ==
    /\ arr' = <<>>
    /\ op' = "idle"
    /\ result' = NoOutcome
    /\ UNCHANGED <<test_param, body, stats_analyzer, numbers, runs, num_runs, analyzer,
                   binary_sequence, arr_y,
                   max_points, calls, first>>

\* basic_stats(arr); np.min raises on an empty array
BasicStats ==
    /\ op' = "basic_stats"
    /\ result' = IF Len(arr) = 0
                 THEN Raised("ValueError", "zero-size array to reduction operation")
                 ELSE Returned(basic_stats(arr))
    /\ UNCHANGED <<test_param, body, stats_analyzer, numbers, runs, num_runs, analyzer,
                   binary_sequence, arr, arr_y,
                   max_points, calls, first>>

NextStats ==
    \/ \E val \in (0 - MaxHalf)..MaxHalf : AppendValue(val)
    \/ ClearArray
    \/ BasicStats

SpecStats == Init /\ [][NextStats]_vars

----------------------------------------------------------------------------
(* Properties of analyze_multi_run and analyze, checked under Spec *)

\* a run that step 1 rejects
FailsValidation(run) == Len(run) = 0 \/ \E i \in 1..Len(run) : run[i].k = "str"

\* a run holding NaN or +/-Inf
HasNanOrInf(run) == \E i \in 1..Len(run) : run[i].k \in {"nan", "inf"}

\* the 1-based positions of the runs without NaN or Inf, ascending
FinitePositions == Ascending({k \in 1..Len(runs) : ~HasNanOrInf(runs[k])})

MultiRunCalled == op = "analyze_multi_run"

\* C1: analyze_multi_run on an empty runs list raises ValueError "No runs
\* provided"; otherwise, if some run is empty or holds a non-numeric entry, it
\* raises the ValueError that names the 1-based position k of the first such
\* run, "Run k is empty" or "Run k contains non-numeric values", whatever the
\* later runs are.
C1_ValidationNamesFirstBadRun ==
    MultiRunCalled =>
        /\ Len(runs) = 0 => result = Raised("ValueError", "No runs provided")
        /\ \A k \in 1..Len(runs) :
              (FailsValidation(runs[k]) /\ \A j \in 1..(k - 1) : ~FailsValidation(runs[j]))
              => result = Raised("ValueError",
                                 IF Len(runs[k]) = 0
                                 THEN "Run " \o ToString(k) \o " is empty"
                                 ELSE "Run " \o ToString(k) \o " contains non-numeric values")

\* a call on two bad runs of different kinds reported the first one
C1_Witness ==
    /\ MultiRunCalled
    /\ runs = <<RunNonNumeric, RunEmpty>>
    /\ result = Raised("ValueError", "Run 1 contains non-numeric values")

\* C2 (as claimed): when every run passes step 1, some run holds NaN or Inf
\* and another run is finite, analyze_multi_run returns a result whose
\* individual_analyses cover the finite runs only.
C2_SkippedRunLeavesResult ==
    (/\ MultiRunCalled
     /\ Len(runs) > 0
     /\ \A k \in 1..Len(runs) : ~FailsValidation(runs[k])
     /\ \E k \in 1..Len(runs) : HasNanOrInf(runs[k])
     /\ \E k \in 1..Len(runs) : ~HasNanOrInf(runs[k]))
    => /\ result.kind = "returned"
       /\ Len(result.value.individual_analyses) = Len(FinitePositions)

\* C3: when every run passes step 1 and every run holds NaN or Inf,
\* analyze_multi_run raises ValueError "No valid runs to analyze", which is
\* none of the step-1 messages, and returns nothing.
C3_NoValidRuns ==
    (/\ MultiRunCalled
     /\ Len(runs) > 0
     /\ \A k \in 1..Len(runs) : ~FailsValidation(runs[k]) /\ HasNanOrInf(runs[k]))
    => /\ result = Raised("ValueError", "No valid runs to analyze")
       /\ result.msg # "No runs provided"
       /\ \A k \in 1..Len(runs) :
             /\ result.msg # "Run " \o ToString(k) \o " is empty"
             /\ result.msg # "Run " \o ToString(k) \o " contains non-numeric values"

\* a call on a run with NaN and a run with Inf raised the error
C3_Witness ==
    /\ MultiRunCalled
    /\ runs = <<RunWithInf, RunWithNaN>>
    /\ result = Raised("ValueError", "No valid runs to analyze")

\* C4: whenever analyze_multi_run returns, individual_analyses,
\* autocorrelation_table and ecdf_all_runs each hold one entry per run without
\* NaN or Inf, in input order: the j-th analysis is that of the j-th such run
\* (its count and its time series are the run's) and the j-th table entries
\* carry that run's 1-based position.
C4_EntriesFollowRetainedRuns ==
    (MultiRunCalled /\ result.kind = "returned") =>
        LET kept == FinitePositions
            out == result.value
        IN  /\ Len(out.individual_analyses) = Len(kept)
            /\ Len(out.autocorrelation_table) = Len(kept)
            /\ Len(out.ecdf_all_runs) = Len(kept)
            /\ \A j \in 1..Len(kept) :
                  /\ out.individual_analyses[j].count = Len(runs[kept[j]])
                  /\ out.individual_analyses[j].independence.time_series.values
                       = Halves(runs[kept[j]])
                  /\ out.autocorrelation_table[j].run = kept[j]
                  /\ out.ecdf_all_runs[j].run = kept[j]

\* a call on two different runs returned
C4_Witness ==
    /\ MultiRunCalled
    /\ runs = <<RunB, RunA>>
    /\ result.kind = "returned"
    /\ Len(result.value.individual_analyses) = 2

\* the number of runs without NaN or Inf that a test passes
PassCount(Passes(_)) ==
    Cardinality({k \in 1..Len(runs) : ~HasNanOrInf(runs[k]) /\ Passes(runs[k])})

KsPasses(run) == KsPassed(KsUniform(Halves(run)))
RunsTestPasses(run) == runs_test(numbers_to_binary(run)).passed
MatrixRankPasses(run) == binary_matrix_rank_test(numbers_to_binary(run), 32).passed
LongestRunPasses(run) == longest_run_of_ones_test(numbers_to_binary(run), 128).passed
ApproximateEntropyPasses(run) == approximate_entropy_test(numbers_to_binary(run), 2).passed

Tally(k) == ToString(k) \o "/" \o ToString(num_runs)

\* C5: whenever analyze_multi_run returns, test_results holds for each of the
\* five tests the string "<k>/<num_runs>" and the integer k, k the number of
\* retained runs the test passes and num_runs the declared value as given; k
\* is at most the number of retained runs.
C5_TalliesOverDeclaredRuns ==
    (MultiRunCalled /\ result.kind = "returned") =>
        LET t == result.value.test_results
        IN  /\ result.value.num_runs = num_runs
            /\ t.ks_passed_count = PassCount(KsPasses)
            /\ t.runs_test_passed_count = PassCount(RunsTestPasses)
            /\ t.binary_matrix_rank_test_passed_count = PassCount(MatrixRankPasses)
            /\ t.longest_run_of_ones_test_passed_count = PassCount(LongestRunPasses)
            /\ t.approximate_entropy_test_passed_count = PassCount(ApproximateEntropyPasses)
            /\ t.ks_uniformity_passed = Tally(t.ks_passed_count)
            /\ t.runs_test_passed = Tally(t.runs_test_passed_count)
            /\ t.binary_matrix_rank_test_passed = Tally(t.binary_matrix_rank_test_passed_count)
            /\ t.longest_run_of_ones_test_passed = Tally(t.longest_run_of_ones_test_passed_count)
            /\ t.approximate_entropy_test_passed = Tally(t.approximate_entropy_test_passed_count)
            /\ \A k \in {t.ks_passed_count, t.runs_test_passed_count,
                         t.binary_matrix_rank_test_passed_count,
                         t.longest_run_of_ones_test_passed_count,
                         t.approximate_entropy_test_passed_count} :
                  k <= Len(FinitePositions)

\* a call with two runs and one declared returned tallies over the declared
\* count, one test passed by both runs and one by only one of them
C5_Witness ==
    /\ MultiRunCalled
    /\ result.kind = "returned"
    /\ Len(runs) = 2
    /\ num_runs = 1
    /\ result.value.test_results.longest_run_of_ones_test_passed = "2/1"
    /\ result.value.test_results.ks_uniformity_passed = "1/1"

\* the lists of finite numbers
AllFinite(list) == \A i \in 1..Len(list) : list[i].k = "fin"

\* C6 (as claimed): analyze returns a result with provider, count and the
\* seven blocks for every non-empty list of finite numbers.
C6_AnalyzeReturnsForFiniteInput ==
    (op = "analyze" /\ Len(numbers) > 0 /\ AllFinite(numbers))
    => /\ result.kind = "returned"
       /\ DOMAIN result.value = {"provider", "count", "basic_stats", "distribution",
                                 "range_behavior", "independence", "stationarity",
                                 "spectral", "nist_tests"}


\* C8, the state part: the analyzer has no attribute, and a call returns what
\* the first call of the same method returned on the same request
C8_SameAsFirstCall ==
    /\ analyzer = NoAttributes
    /\ op = "analyze" => result = first.analyze
    /\ op = "analyze_multi_run" => result = first.analyze_multi_run

\* C8, the frame part: a call leaves the caller's lists and the analyzer as
\* they were
C8_CallKeepsInputs ==
    calls' = calls + 1 => (numbers' = numbers /\ runs' = runs /\ analyzer' = analyzer)

----------------------------------------------------------------------------
(* Properties of the NIST tests, checked under SpecNist *)

NistTestCalled ==
    op \in {"runs_test", "binary_matrix_rank_test", "longest_run_of_ones_test",
            "approximate_entropy_test"}

\* C7: each of the four tests returns a record for every bit list; a record
\* with an error field has p_value null, statistic null and passed false; a
\* record without one has passed true exactly when p_value > 0.01 (100 basis
\* points).
C7_UniformTestRecords ==
    NistTestCalled =>
        /\ result.kind = "returned"
        /\ "error" \in DOMAIN result.value
              => /\ result.value.p_value = None
                 /\ result.value.statistic = None
                 /\ result.value.passed = FALSE
        /\ "error" \notin DOMAIN result.value
              => /\ result.value.p_value # None
                 /\ result.value.passed = (result.value.p_value[1] > 100)

\* the matrix rank test ran on 1024 bits and passed
C7_Witness ==
    /\ op = "binary_matrix_rank_test"
    /\ Len(binary_sequence) = 1024
    /\ "error" \notin DOMAIN result.value
    /\ result.value.passed

----------------------------------------------------------------------------
(* Properties of downsample / downsample_single, checked under SpecUtils *)

\* the elements of a at the positions of a set, in rising order
Pick(a, positions) == [i \in 1..Cardinality(positions) |-> a[Ascending(positions)[i]]]

\* out is what C9 allows for input a
DownsampledFrom(out, a) ==
    IF Len(a) <= max_points THEN out = a
    ELSE /\ Len(out) <= max_points + 1
         /\ out[1] = a[1]
         /\ out[Len(out)] = a[Len(a)]
         /\ \E positions \in SUBSET (1..Len(a)) : out = Pick(a, positions)

\* C9: for max_points >= 1, downsample_single and downsample return the input
\* when its length is at most max_points; otherwise a subsequence of at most
\* max_points + 1 elements that starts with the first and ends with the last
\* element, downsample taking the same positions from x and from y.
C9_DownsampleKeepsEnds ==
    /\ op = "downsample_single" => DownsampledFrom(result.value, arr)
    /\ op = "downsample" =>
          /\ DownsampledFrom(result.value[1], arr)
          /\ \E positions \in SUBSET (1..Len(arr)) :
                /\ result.value[1] = Pick(arr, positions)
                /\ result.value[2] = Pick(arr_y, positions)

\* downsample cut nine pairs to max_points = 1 and returned both ends
C9_Witness ==
    /\ op = "downsample"
    /\ Len(arr) = 9
    /\ max_points = 1
    /\ Len(result.value[1]) = 2

----------------------------------------------------------------------------
(* Properties of basic_stats, checked under SpecStats *)

\* C10: for every non-empty array of finite numbers, integer-like or not,
\* basic_stats has min <= q25 <= median <= q75 <= max.
C10_QuantilesOrdered ==
    (op = "basic_stats" /\ Len(arr) > 0) =>
        /\ result.kind = "returned"
        /\ result.value.min <= result.value.q25
        /\ result.value.q25 <= result.value.median
        /\ result.value.median <= result.value.q75
        /\ result.value.q75 <= result.value.max

\* basic_stats ran on four numbers, not all whole, and returned strictly
\* rising quantiles
C10_Witness ==
    /\ op = "basic_stats"
    /\ Len(arr) = 4
    /\ result.value.min < result.value.q25
    /\ result.value.q25 < result.value.median
    /\ result.value.median < result.value.q75
    /\ result.value.q75 < result.value.max
    /\ ~is_integer_like(arr)

\* basic_stats returned for a non-empty array of whole numbers
DiscreteStats ==
    /\ op = "basic_stats"
    /\ is_integer_like(arr)
    /\ result.kind = "returned"

\* the number of elements of arr equal to val
Occurrences(val) == Cardinality({i \in 1..Len(arr) : arr[i] = val})

\* C11: for integer-like input the mode is a value of the input that no other
\* value outnumbers, and every other value with the same count is larger.
C11_ModeIsSmallestMostFrequent ==
    (op = "basic_stats" /\ is_integer_like(arr)) =>
        /\ result.kind = "returned"
        /\ result.value.mode.den = 2
        /\ \E i \in 1..Len(arr) : arr[i] = result.value.mode.num
        /\ \A j \in 1..Len(arr) :
              /\ Occurrences(arr[j]) <= Occurrences(result.value.mode.num)
              /\ Occurrences(arr[j]) = Occurrences(result.value.mode.num)
                    => result.value.mode.num <= arr[j]

\* basic_stats ran on whole numbers where two values share the highest count
\* and the larger one comes first; the mode is the smaller
C11_Witness ==
    /\ DiscreteStats
    /\ Len(arr) = 4
    /\ arr[1] = 2
    /\ Occurrences(0) = 2
    /\ Occurrences(2) = 2
    /\ result.value.mode.num = 0

\* the element of arr that has at most k elements below it and more than k
\* elements at or below it: the order statistic at 0-based index k
OrderStatistic(k) ==
    CHOOSE val \in {arr[i] : i \in 1..Len(arr)} :
        /\ Cardinality({i \in 1..Len(arr) : arr[i] < val}) <= k
        /\ Cardinality({i \in 1..Len(arr) : arr[i] <= val}) > k

\* the 0-based index floor((n-1)*p/100)
LowerIndex(p) == ((Len(arr) - 1) * p) \div 100

----------------------------------------------------------------------------
(* Properties of runs_test, checked under SpecNist *)

\* runs_test returned a record without an error field
RunsTestRan ==
    /\ op = "runs_test"
    /\ result.kind = "returned"
    /\ "error" \notin DOMAIN result.value

\* the positions where a maximal block of equal bits ends
BlockEnds ==
    {e \in 1..Len(binary_sequence) :
        e = Len(binary_sequence) \/ binary_sequence[e + 1] # binary_sequence[e]}

\* C13: a runs_test record without an error field has runs = the number of
\* maximal blocks of equal consecutive bits, ones = the number of 1 bits and
\* ones + zeros = the length of the sequence.
C13_RunsCountsBlocks ==
    RunsTestRan =>
        /\ result.value.runs = Cardinality(BlockEnds)
        /\ result.value.ones =
              Cardinality({i \in 1..Len(binary_sequence) : binary_sequence[i] = 1})
        /\ result.value.zeros =
              Cardinality({i \in 1..Len(binary_sequence) : binary_sequence[i] = 0})
        /\ result.value.ones + result.value.zeros = Len(binary_sequence)

\* runs_test ran on 0 1 1 0: three blocks, two ones, two zeros
C13_Witness ==
    /\ RunsTestRan
    /\ binary_sequence = <<0, 1, 1, 0>>
    /\ result.value.runs = 3
    /\ result.value.ones = 2
    /\ result.value.zeros = 2

----------------------------------------------------------------------------
(* Properties of numbers_to_binary, checked under SpecNist *)

\* the natural number written by a bit list, most significant bit first
RECURSIVE BitsToNat(_)
BitsToNat(bits) ==
    IF bits = <<>> THEN 0
    ELSE 2 * BitsToNat(SubSeq(bits, 1, Len(bits) - 1)) + bits[Len(bits)]

AllZero(bits) == \A j \in 1..Len(bits) : bits[j] = 0

\* the number a 64-bit word stands for as an IEEE-754 double, read big-endian:
\* sign bit, 11 exponent bits biased by 1023, 52 fraction bits.  Words whose
\* value is not a multiple of one half below 2^20 are not decoded.
DecodeDouble(w) ==
    LET exponent == BitsToNat(SubSeq(w, 2, 12))
        fraction == SubSeq(w, 13, 64)
        l == exponent - 1022
    IN  IF exponent = 2047
        THEN IF ~AllZero(fraction) THEN NaN
             ELSE IF w[1] = 1 THEN NegInf ELSE PosInf
        ELSE IF exponent = 0 /\ AllZero(fraction) THEN Fin(0)
        ELSE IF l \in 0..20 /\ AllZero(SubSeq(fraction, l + 1, 52))
        THEN Fin((IF w[1] = 1 THEN -1 ELSE 1)
                 * (Pow2(l) + BitsToNat(SubSeq(fraction, 1, l))))
        ELSE [k |-> "other", v |-> 0]

\* the 64 bits of the i-th number in a bit list
Word(bits, i) == SubSeq(bits, 64 * (i - 1) + 1, 64 * i)

\* C14: numbers_to_binary of k numbers returns 64*k bits, each 0 or 1; bits
\* 64*i .. 64*i+63 read as a big-endian IEEE-754 double are the i-th number,
\* so different numbers give different words; nist_tests reports
\* binary_sequence_length = 64*k.
C14_BigEndianDoubles ==
    /\ op = "numbers_to_binary" =>
          /\ result.kind = "returned"
          /\ Len(result.value) = 64 * Len(numbers)
          /\ \A j \in 1..Len(result.value) : result.value[j] \in {0, 1}
          /\ \A i \in 1..Len(numbers) : DecodeDouble(Word(result.value, i)) = numbers[i]
          /\ \A i, j \in 1..Len(numbers) :
                numbers[i] # numbers[j] => Word(result.value, i) # Word(result.value, j)
    /\ op = "nist_tests" =>
          /\ result.kind = "returned"
          /\ result.value.binary_sequence_length = 64 * Len(numbers)

\* numbers_to_binary ran on [0.0, 1.0]: 128 bits, 64 zeros and then
\* 0x3FF0000000000000
C14_Witness ==
    /\ op = "numbers_to_binary"
    /\ numbers = <<Fin(0), Fin(2)>>
    /\ Len(result.value) = 128
    /\ AllZero(Word(result.value, 1))
    /\ SubSeq(result.value, 65, 76) = <<0, 0, 1, 1, 1, 1, 1, 1, 1, 1, 1, 1>>
    /\ AllZero(SubSeq(result.value, 77, 128))

----------------------------------------------------------------------------
(* analysis_service.py: analyze_numbers_service(request, stats_analyzer) *)

\* JSON values of the keys 'runs' and 'numbers': size is the length of a
\* list or a string and the value of a number
JsonAbsent == [t |-> "absent", size |-> 0, items |-> <<>>]
JsonNull == [t |-> "null", size |-> 0, items |-> <<>>]
JsonNumber(n) == [t |-> "number", size |-> n, items |-> <<>>]
JsonString(n) == [t |-> "string", size |-> n, items |-> <<>>]
JsonList(items) == [t |-> "list", size |-> Len(items), items |-> items]

\* a request body: json is "invalid" (not JSON), "array" (JSON, not an object)
\* or "object"; provider_given tells whether the object has a 'provider' key
Body(json, runs_value, numbers_value, given) ==
    [json |-> json, runs |-> runs_value, numbers |-> numbers_value,
     provider_given |-> given, num_runs |-> 1]

HTTPException(status_code, detail) ==
    [kind |-> "raised", exc |-> "HTTPException", status_code |-> status_code, msg |-> detail]

\* len(x) is defined for lists and strings, and raises TypeError otherwise
HasLen(value) == value.t \in {"list", "string"}

\* isinstance(e, ValueError): json.JSONDecodeError, pydantic's ValidationError
\* and numpy.linalg.LinAlgError are subclasses of ValueError
IsValueError(exc) ==
    exc \in {"ValueError", "JSONDecodeError", "ValidationError", "LinAlgError"}

\* NumberData(**body): numbers is a list of floats and provider is given
NumberDataValid(b) ==
    /\ b.provider_given
    /\ \A i \in 1..Len(b.numbers.items) : IsNumber(b.numbers.items[i])

\* MultiRunData(**body): runs is a list of lists of floats, provider and
\* num_runs are given
MultiRunDataValid(b) ==
    /\ b.provider_given
    /\ \A i \in 1..Len(b.runs.items) :
          \A j \in 1..Len(b.runs.items[i]) : IsNumber(b.runs.items[i][j])

\* the call made on the analyzer object: a StatsAnalyzer gives its outcome,
\* any other object stands for an analyzer whose call raises a RuntimeError
CallAnalyzer(impl, outcome) ==
    IF impl = "StatsAnalyzer" THEN outcome
    ELSE Raised("RuntimeError", "analyzer failed")

\* the inner try: model validation, the analyzer call, and its two handlers
InnerHandler(valid, outcome, label) ==
    IF ~valid THEN HTTPException(400, "Validation error: validation error for " \o label)
    ELSE IF outcome.kind = "returned" THEN outcome
    ELSE IF IsValueError(outcome.exc)
    THEN HTTPException(400, "Validation error: " \o outcome.msg)
    ELSE HTTPException(500, label \o " error: " \o outcome.msg)

\* one branch of the handler, for the key 'runs' or 'numbers'
ServiceBranch(value, key, valid, outcome, label) ==
    IF ~HasLen(value) THEN Raised("TypeError", "object has no len()")
    ELSE IF value.size = 0 THEN HTTPException(400, "'" \o key \o "' array is empty")
    ELSE IF value.t # "list" THEN HTTPException(400, "'" \o key \o "' must be an array")
    ELSE InnerHandler(valid, outcome, label)

\* the body of the outer try
RequestHandler(b, impl) ==
    IF b.json = "invalid" THEN Raised("JSONDecodeError", "Expecting value")
    ELSE IF b.json # "object"
    THEN Raised("AttributeError", "'list' object has no attribute 'keys'")
    ELSE IF b.runs.t # "absent"
    THEN ServiceBranch(b.runs, "runs", MultiRunDataValid(b),
                       CallAnalyzer(impl, analyze_multi_run(b.runs.items, Provider, b.num_runs)),
                       "Multi-run analysis")
    ELSE IF b.numbers.t # "absent"
    THEN ServiceBranch(b.numbers, "numbers", NumberDataValid(b),
                       CallAnalyzer(impl, analyze(b.numbers.items, Provider)),
                       "Single-run analysis")
    ELSE HTTPException(400, "Either 'runs' or 'numbers' must be provided")

\* the handlers of the outer try: HTTPException re-raised as it is,
\* JSONDecodeError to 400, any other exception to 500
OuterHandler(outcome) ==
    IF outcome.kind = "returned" THEN outcome
    ELSE IF outcome.exc = "HTTPException" THEN outcome
    ELSE IF outcome.exc = "JSONDecodeError"
    THEN HTTPException(400, "Invalid JSON: " \o outcome.msg)
    ELSE HTTPException(500, "Analysis error: " \o outcome.msg)

analyze_numbers_service(b, impl) == OuterHandler(RequestHandler(b, impl))

\* the lists of runs a request carries
ServiceRuns ==
    {<<>>, <<RunA>>, <<RunA, RunB>>, <<RunB, RunWithNaN>>, <<RunEmpty>>,
     <<RunNonNumeric>>, <<RunConstant>>}

RunsValues ==
    {JsonAbsent, JsonNull, JsonNumber(5), JsonString(0), JsonString(10)}
    \cup {JsonList(rs) : rs \in ServiceRuns}

NumbersValues ==
    {JsonAbsent, JsonNull, JsonNumber(5), JsonString(0), JsonString(10)}
    \cup {JsonList(nums) : nums \in NumbersPool \cup {RunNonNumeric}}

Bodies ==
    {Body("invalid", JsonAbsent, JsonAbsent, FALSE), Body("array", JsonAbsent, JsonAbsent, FALSE)}
    \cup {Body("object", rv, nv, given) :
            rv \in RunsValues, nv \in NumbersValues, given \in BOOLEAN}

\* a request arrives, to be served with an analyzer object
NewRequest(b, impl) ==
    /\ body' = b
    /\ stats_analyzer' = impl
    /\ op' = "idle"
    /\ result' = NoOutcome
    /\ UNCHANGED <<test_param, numbers, runs, num_runs, analyzer, binary_sequence, arr, arr_y,
                   max_points, calls, first>>

AnalyzeNumbersService ==
    /\ body.json # "none"
    /\ op' = "analyze_numbers_service"
    /\ result' = analyze_numbers_service(body, stats_analyzer)
    /\ UNCHANGED <<test_param, body, stats_analyzer, numbers, runs, num_runs, analyzer,
                   binary_sequence, arr, arr_y, max_points, calls, first>>

NextService ==
    \/ \E b \in Bodies, impl \in {"StatsAnalyzer", "Failing"} : NewRequest(b, impl)
    \/ AnalyzeNumbersService

SpecService == Init /\ [][NextService]_vars

----------------------------------------------------------------------------
(* Properties of analyze_numbers_service, checked under SpecService *)

\* the value the handler looks at: 'runs' when the key is present, else 'numbers'
RequestValue == IF body.runs.t # "absent" THEN body.runs ELSE body.numbers

\* the request reaches the analyzer call
AnalyzerCalled ==
    /\ body.json = "object"
    /\ RequestValue.t = "list"
    /\ RequestValue.size > 0
    /\ IF body.runs.t # "absent" THEN MultiRunDataValid(body) ELSE NumberDataValid(body)

\* what the analyzer call gave
AnalyzerOutcome ==
    CallAnalyzer(stats_analyzer,
                 IF body.runs.t # "absent"
                 THEN analyze_multi_run(body.runs.items, Provider, body.num_runs)
                 ELSE analyze(body.numbers.items, Provider))

ServiceFailedWith(status_code) ==
    /\ result.kind = "raised"
    /\ result.exc = "HTTPException"
    /\ result.status_code = status_code

\* C15 (as claimed): every failure leaves as an HTTPException; a ValueError of
\* the analyzer gives 400 and any other exception of the analyzer 500; an
\* empty or non-list 'runs'/'numbers' value gives 400, and so does a body
\* with neither key.
C15_FixedStatusForEveryFailure ==
    op = "analyze_numbers_service" =>
        /\ result.kind = "raised" => ServiceFailedWith(400) \/ ServiceFailedWith(500)
        /\ (AnalyzerCalled /\ AnalyzerOutcome.kind = "raised") =>
              IF IsValueError(AnalyzerOutcome.exc)
              THEN ServiceFailedWith(400) ELSE ServiceFailedWith(500)
        /\ (body.json = "object" /\ RequestValue.t \notin {"absent", "list"}) =>
              ServiceFailedWith(400)
        /\ (body.json = "object" /\ RequestValue.t = "list" /\ RequestValue.size = 0) =>
              ServiceFailedWith(400)
        /\ (body.json = "object" /\ RequestValue.t = "absent") => ServiceFailedWith(400)

----------------------------------------------------------------------------
(* compute_distribution_deviation_metrics called on a list of runs *)

\* the runs handed to compute_distribution_deviation_metrics
DeviationPool ==
    {RunEmpty, RunNonNumeric, RunWithNaN, RunWithInf, RunA, RunB, RunSingle, RunPair,
     RunConstant, RunFifths, RunSkewed}

\* compute_distribution_deviation_metrics(runs); np.array(run, dtype=float)
\* raises ValueError for an element that is not a number
ComputeDistributionDeviationMetrics ==
    /\ op' = "compute_distribution_deviation_metrics"
    /\ result' = IF \E i \in 1..Len(runs) : RunIsNonNumeric(runs[i])
                 THEN Raised("ValueError", "could not convert string to float")
                 ELSE Returned(compute_distribution_deviation_metrics(runs))
    /\ UNCHANGED <<test_param, body, stats_analyzer, numbers, runs, num_runs, analyzer,
                   binary_sequence, arr, arr_y, max_points, calls, first>>

NextDeviation ==
    \/ \E run \in DeviationPool : AppendRun(run)
    \/ ComputeDistributionDeviationMetrics

SpecDeviation == Init /\ [][NextDeviation]_vars

----------------------------------------------------------------------------
(* Properties of compute_distribution_deviation_metrics, checked under
   SpecDeviation *)

\* every mean, std_dev and cv of a deviation dictionary
DeviationFloats(d) ==
    {d.ecdf.ks_statistic.mean, d.ecdf.ks_statistic.std_dev, d.ecdf.ks_statistic.cv,
     d.ecdf.mad.mean, d.ecdf.mad.std_dev, d.ecdf.mad.cv,
     d.qq.r_squared.mean, d.qq.r_squared.std_dev,
     d.qq.mse_from_diagonal.mean, d.qq.mse_from_diagonal.std_dev}
    \cup {d.ecdf.regional_deviation.mean[r] : r \in 1..5}

\* the run is left out: it holds NaN or Inf or has fewer than 2 points
LeftOut(run) == Len(run) < 2 \/ \E i \in 1..Len(run) : IsNanOrInf(run[i])

\* C16 (as claimed): on a list of numeric runs
\* compute_distribution_deviation_metrics returns, none of its mean, std_dev
\* and cv values is NaN, and when every run is left out it returns the
\* all-zero structure.
C16_DeviationMetricsFinite ==
    (op = "compute_distribution_deviation_metrics"
     /\ \A i \in 1..Len(runs) : ~RunIsNonNumeric(runs[i])) =>
        /\ result.kind = "returned"
        /\ \A f \in DeviationFloats(result.value) : ~f.nan
        /\ (\A i \in 1..Len(runs) : LeftOut(runs[i]))
              => result.value = empty_deviation_metrics

----------------------------------------------------------------------------
(* stationarity_analysis called on a sequence *)

MaxSeries == 12     \* longest sequence handed to stationarity_analysis

\* sequences of n values (in halves) of a few shapes
Series(n, shape) ==
    [i \in 1..n |->
        IF shape = "rising" THEN 2 * i
        ELSE IF shape = "falling" THEN 3 * (n - i)
        ELSE IF shape = "zigzag" THEN (IF i % 2 = 1 THEN i ELSE 0 - i)
        ELSE IF shape = "steps" THEN 5 * (i \div 3)
        ELSE 4]

SeriesShapes == {"rising", "falling", "zigzag", "steps", "constant"}

NewSeries(n, shape) ==
    /\ arr' = Series(n, shape)
    /\ op' = "idle"
    /\ result' = NoOutcome
    /\ UNCHANGED <<test_param, body, stats_analyzer, numbers, runs, num_runs, analyzer,
                   binary_sequence, arr_y, max_points, calls, first>>

\* lengths where the window grows beyond 10 (220 = 20 * 11) and where the
\* complete windows outnumber MAX_CHART_POINTS (5263 - 263 + 1 = 5001)
LongWindowLengths == {219, 220, 240, 5262, 5263, 5300}

\* a long sequence of 0s and 1s (in halves)
NewLongSeries(n, period, duty) ==
    /\ arr' = Periodic(n, period, duty)
    /\ op' = "idle"
    /\ result' = NoOutcome
    /\ UNCHANGED <<test_param, body, stats_analyzer, numbers, runs, num_runs, analyzer,
                   binary_sequence, arr_y, max_points, calls, first>>

StationarityAnalysis ==
    /\ op' = "stationarity_analysis"
    /\ result' = Returned(stationarity_analysis(arr))
    /\ UNCHANGED <<test_param, body, stats_analyzer, numbers, runs, num_runs, analyzer,
                   binary_sequence, arr, arr_y, max_points, calls, first>>

NextStationarity ==
    \/ \E n \in 0..MaxSeries, shape \in SeriesShapes : NewSeries(n, shape)
    \/ StationarityAnalysis

SpecStationarity == Init /\ [][NextStationarity]_vars

\* the same calls, long sequences included
NextRolling ==
    \/ \E n \in 0..MaxSeries, shape \in SeriesShapes : NewSeries(n, shape)
    \/ \E n \in LongWindowLengths : NewLongSeries(n, 7, 3)
    \/ StationarityAnalysis

SpecRolling == Init /\ [][NextRolling]_vars

----------------------------------------------------------------------------
(* Properties of stationarity_analysis, checked under SpecStationarity *)

\* the record of chunk c when the chunk holds the elements first..last of arr
ChunkRecordOf(c, first_pos, last_pos) ==
    [chunk |-> c,
     mean |-> [num |-> SeqSum(SubSeq(arr, first_pos, last_pos)),
               den |-> 2 * (last_pos - first_pos + 1)],
     min |-> SeqMin(SubSeq(arr, first_pos, last_pos)),
     max |-> SeqMax(SubSeq(arr, first_pos, last_pos))]

\* the chunk records are numbered 1 to 4 and describe four non-empty pieces
\* of arr that are contiguous, in order, disjoint and cover arr
FourChunksCoverArr(recs) ==
    /\ Len(recs) = 4
    /\ \A j \in 1..4 : recs[j].chunk = j
    /\ \E b1, b2, b3 \in 1..Len(arr) :
          /\ b1 < b2
          /\ b2 < b3
          /\ b3 < Len(arr)
          /\ recs[1] = ChunkRecordOf(1, 1, b1)
          /\ recs[2] = ChunkRecordOf(2, b1 + 1, b2)
          /\ recs[3] = ChunkRecordOf(3, b2 + 1, b3)
          /\ recs[4] = ChunkRecordOf(4, b3 + 1, Len(arr))

\* C17 (as claimed): for every non-empty sequence stationarity_analysis
\* reports exactly 4 chunk records, numbered 1 to 4, of contiguous, in-order,
\* non-overlapping chunks that cover the sequence.
C17_AlwaysFourChunks ==
    (op = "stationarity_analysis" /\ Len(arr) >= 1) =>
        /\ result.kind = "returned"
        /\ FourChunksCoverArr(result.value.chunks)

\* C17 (amended): a sequence of 4 or more elements gets exactly 4 chunk
\* records, numbered 1 to 4, of contiguous, in-order, non-overlapping chunks
\* that cover it; a sequence of n < 4 elements gets n records, numbered 1 to
\* n, one element each.
C17_FourChunksFromFourElements ==
    op = "stationarity_analysis" =>
        /\ result.kind = "returned"
        /\ Len(arr) >= 4 => FourChunksCoverArr(result.value.chunks)
        /\ Len(arr) < 4 =>
              /\ Len(result.value.chunks) = Len(arr)
              /\ \A j \in 1..Len(arr) : result.value.chunks[j] = ChunkRecordOf(j, j, j)

\* stationarity_analysis ran on three elements and reported three records
C17_Witness ==
    /\ op = "stationarity_analysis"
    /\ Len(arr) = 3
    /\ Len(result.value.chunks) = 3
    /\ result.value.chunks[3].chunk = 3
    /\ result.value.chunks[1].max < result.value.chunks[3].min

\* the first and last position of chunk c when the chunks have the sizes of a
\* list
SizedChunkRecords(sizes) ==
    [c \in 1..4 |-> ChunkRecordOf(c, SeqSum(SubSeq(sizes, 1, c - 1)) + 1,
                                  SeqSum(SubSeq(sizes, 1, c)))]

\* C18 (as claimed): the first three chunks have floor(n/4) elements each and
\* the fourth has the remaining n - 3*floor(n/4).
C18_RemainderInLastChunk ==
    (op = "stationarity_analysis" /\ Len(arr) >= 4) =>
        result.value.chunks =
            SizedChunkRecords([c \in 1..4 |->
                IF c < 4 THEN Len(arr) \div 4 ELSE Len(arr) - 3 * (Len(arr) \div 4)])

\* C18 (amended): the remainder of n divided by 4 is spread over the first
\* chunks: the first n mod 4 chunks have floor(n/4) + 1 elements and the
\* others floor(n/4).
C18_RemainderInFirstChunks ==
    (op = "stationarity_analysis" /\ Len(arr) >= 4) =>
        result.value.chunks =
            SizedChunkRecords([c \in 1..4 |->
                Len(arr) \div 4 + (IF c <= Len(arr) % 4 THEN 1 ELSE 0)])

\* stationarity_analysis ran on a rising sequence of 6 elements: the chunks
\* hold 2, 2, 1 and 1 elements
C18_Witness ==
    /\ op = "stationarity_analysis"
    /\ arr = Series(6, "rising")
    /\ result.value.chunks[1].min = arr[1]
    /\ result.value.chunks[1].max = arr[2]
    /\ result.value.chunks[2].max = arr[4]
    /\ result.value.chunks[3].max = arr[5]
    /\ result.value.chunks[4].min = arr[6]

----------------------------------------------------------------------------
(* Properties of binary_matrix_rank_test, checked under SpecNist *)

\* binary_matrix_rank_test was the last call
MatrixRankTestRan == op = "binary_matrix_rank_test" /\ result.kind = "returned"

\* the record of a test that could not run
IsErrorRecord(rec) ==
    /\ "error" \in DOMAIN rec
    /\ rec.p_value = None
    /\ rec.statistic = None
    /\ rec.passed = FALSE

\* the i-th (0-based) 1024-bit slice of the sequence read as 32 rows of 32 bits:
\* entry (row, col) is bit 1024*i + 32*(row - 1) + col
Slice(i) ==
    Force([row \in 1..32 |->
        Force([col \in 1..32 |-> binary_sequence[1024 * i + 32 * (row - 1) + col]])])

\* the real rank of every full slice of the sequence
SliceRanks == Force([i \in 1..(Len(binary_sequence) \div 1024) |-> matrix_rank(Slice(i - 1))])

\* C19: with matrix_size 32 and n >= 1024 bits the test counts floor(n/1024)
\* matrices, cut from consecutive disjoint 1024-bit slices read row-major
\* (the trailing n mod 1024 bits belong to no slice), each in exactly one of
\* the buckets rank 32, rank 31, rank <= 30, so the three counts add up to
\* num_matrices; with fewer than 1024 bits or another matrix_size the test
\* returns an error record.
C19_MatrixRankSlicesAndBuckets ==
    (op = "binary_matrix_rank_test") =>
        /\ result.kind = "returned"
        /\ IF test_param # 32 \/ Len(binary_sequence) < 1024
           THEN IsErrorRecord(result.value)
           ELSE /\ "error" \notin DOMAIN result.value
                /\ result.value.num_matrices = Len(binary_sequence) \div 1024
                /\ result.value.full_rank_count =
                      Cardinality({i \in DOMAIN SliceRanks : SliceRanks[i] = 32})
                /\ result.value.rank_minus_1_count =
                      Cardinality({i \in DOMAIN SliceRanks : SliceRanks[i] = 31})
                /\ result.value.rank_0_count =
                      Cardinality({i \in DOMAIN SliceRanks : SliceRanks[i] <= 30})
                /\ result.value.full_rank_count + result.value.rank_minus_1_count
                      + result.value.rank_0_count = result.value.num_matrices

\* the test ran on 2060 bits of period 33: two matrices, the identity (rank 32)
\* and the identity shifted by one column (rank 31), and 12 trailing bits
C19_Witness ==
    /\ MatrixRankTestRan
    /\ test_param = 32
    /\ Len(binary_sequence) = 2060
    /\ "error" \notin DOMAIN result.value
    /\ result.value.num_matrices = 2
    /\ result.value.full_rank_count = 1
    /\ result.value.rank_minus_1_count = 1
    /\ result.value.rank_0_count = 0

\* Gaussian elimination over GF(2), column by column: a row with a 1 in the
\* pivot column is replaced by its sum with the pivot row modulo 2
RECURSIVE BinaryRankFrom(_, _, _)
BinaryRankFrom(m, used, c) ==
    IF c > Len(m[1]) THEN Cardinality(used)
    ELSE LET cand == {i \in (1..Len(m)) \ used : m[i][c] # 0}
         IN  IF cand = {} THEN BinaryRankFrom(m, used, c + 1)
             ELSE LET p == CHOOSE i \in cand : \A j \in cand : i <= j
                      m2 == Force([i \in 1..Len(m) |->
                                IF i \in cand \ {p}
                                THEN Force([j \in 1..Len(m[i]) |-> (m[i][j] + m[p][j]) % 2])
                                ELSE m[i]])
                  IN  BinaryRankFrom(m2, used \cup {p}, c + 1)

\* the rank of a 0/1 matrix over GF(2)
BinaryRank(m) == BinaryRankFrom(m, {}, 1)

\* the rank over GF(2) of every full slice of the sequence
SliceBinaryRanks ==
    Force([i \in 1..(Len(binary_sequence) \div 1024) |-> BinaryRank(Slice(i - 1))])

\* C20: the rank the test assigns to every 32 x 32 slice equals the slice's rank
\* over GF(2), so the three bucket counts are those of the binary ranks.
C20_RealRankIsBinaryRank ==
    (MatrixRankTestRan /\ "error" \notin DOMAIN result.value) =>
        /\ \A i \in DOMAIN SliceRanks : SliceRanks[i] = SliceBinaryRanks[i]
        /\ result.value.full_rank_count =
              Cardinality({i \in DOMAIN SliceBinaryRanks : SliceBinaryRanks[i] = 32})
        /\ result.value.rank_minus_1_count =
              Cardinality({i \in DOMAIN SliceBinaryRanks : SliceBinaryRanks[i] = 31})
        /\ result.value.rank_0_count =
              Cardinality({i \in DOMAIN SliceBinaryRanks : SliceBinaryRanks[i] <= 30})

\* the test counted the slice of TriangleBits, whose determinant is 2, as a
\* matrix of rank 32 although its rank over GF(2) is 31
C20_FullRankOnlyOverTheReals ==
    /\ MatrixRankTestRan
    /\ binary_sequence = TriangleBits
    /\ "error" \notin DOMAIN result.value
    /\ result.value.full_rank_count = 1
    /\ SliceBinaryRanks[1] = 31

----------------------------------------------------------------------------
(* Properties of longest_run_of_ones_test, checked under SpecNist *)

\* longest_run_of_ones_test was the last call
LongestRunTestRan == op = "longest_run_of_ones_test" /\ result.kind = "returned"

\* the positions of the i-th (1-based) 128-bit block where a run of 1s starts
\* or ends, a run being cut at both ends of the block
RunStarts(i) ==
    {s \in (128 * (i - 1) + 1)..(128 * i) :
        binary_sequence[s] = 1 /\ (s = 128 * (i - 1) + 1 \/ binary_sequence[s - 1] = 0)}
RunEnds(i) ==
    {e \in (128 * (i - 1) + 1)..(128 * i) :
        binary_sequence[e] = 1 /\ (e = 128 * i \/ binary_sequence[e + 1] = 0)}

\* the lengths of the runs of 1s of the i-th block: every run reaches from its
\* start to the first end at or after it
RunLengthsOfBlock(i) ==
    LET ends == RunEnds(i)
    IN  {(CHOOSE e \in ends : e >= s /\ \A f \in ends : f >= s => e <= f) - s + 1 :
            s \in RunStarts(i)}

\* the longest run of 1s inside the i-th block, 0 when the block has no 1
BlockMaxRun(i) ==
    LET lens == RunLengthsOfBlock(i)
    IN  IF lens = {} THEN 0 ELSE CHOOSE len \in lens : \A other \in lens : other <= len

\* the longest run of every full block of the sequence
BlockMaxRuns == Force([i \in 1..(Len(binary_sequence) \div 128) |-> BlockMaxRun(i)])

\* the number of blocks whose longest run, listed in maxruns, satisfies the
\* bucket of key
BlocksInBucket(maxruns, key) ==
    Cardinality({i \in DOMAIN maxruns :
        IF key = 4 THEN maxruns[i] <= 4
        ELSE IF key = 9 THEN maxruns[i] >= 9
        ELSE maxruns[i] = key})

\* C21: with block_size 128 and n >= 128 bits the test counts floor(n/128)
\* consecutive disjoint 128-bit blocks, each under the bucket (<= 4, 5, 6, 7,
\* 8, >= 9) of the longest run of 1s lying inside the block, so the six
\* run_counts add up to num_blocks; with fewer than 128 bits or another
\* block_size it returns an error record.
C21_LongestRunBlocksAndBuckets ==
    (op = "longest_run_of_ones_test") =>
        /\ result.kind = "returned"
        /\ IF test_param # 128 \/ Len(binary_sequence) < 128
           THEN IsErrorRecord(result.value)
           ELSE /\ "error" \notin DOMAIN result.value
                /\ result.value.num_blocks = Len(binary_sequence) \div 128
                /\ DOMAIN result.value.run_counts = {"4", "5", "6", "7", "8", "9"}
                /\ LET maxruns == BlockMaxRuns
                   IN  \A key \in 4..9 :
                           result.value.run_counts[ToString(key)] = BlocksInBucket(maxruns, key)
                /\ result.value.run_counts["4"] + result.value.run_counts["5"]
                      + result.value.run_counts["6"] + result.value.run_counts["7"]
                      + result.value.run_counts["8"] + result.value.run_counts["9"]
                      = result.value.num_blocks

\* the test ran on StraddleBits: the first block holds a run of six and the
\* first half of the run of eight, the second block its second half, and 44
\* bits are left over
C21_Witness ==
    /\ LongestRunTestRan
    /\ test_param = 128
    /\ binary_sequence = StraddleBits
    /\ "error" \notin DOMAIN result.value
    /\ result.value.num_blocks = 2
    /\ result.value.run_counts["6"] = 1
    /\ result.value.run_counts["4"] = 1
    /\ result.value.run_counts["8"] = 0

----------------------------------------------------------------------------
(* Properties of approximate_entropy_test, checked under SpecNist *)

\* approximate_entropy_test was the last call
ApproximateEntropyTestRan == op = "approximate_entropy_test" /\ result.kind = "returned"

\* the number of start positions of the sequence where pat occurs in full
StartsOf(pat) ==
    Cardinality({i \in 1..(Len(binary_sequence) - Len(pat) + 1) :
        \A j \in 1..Len(pat) : binary_sequence[i + j - 1] = pat[j]})

RECURSIVE SumOfCounts(_, _)
SumOfCounts(counts, pats) ==
    IF pats = {} THEN 0
    ELSE LET pat == CHOOSE q \in pats : TRUE
         IN  counts[pat] + SumOfCounts(counts, pats \ {pat})

\* the counts hold exactly the patterns of the length that occur, each with the
\* number of its start positions, and add up to total
CountsEveryStart(counts, len, total) ==
    /\ \A pat \in [1..len -> {0, 1}] :
          IF StartsOf(pat) = 0 THEN pat \notin DOMAIN counts
          ELSE pat \in DOMAIN counts /\ counts[pat] = StartsOf(pat)
    /\ SumOfCounts(counts, DOMAIN counts) = total

\* C22: approximate_entropy_test with m = 2 returns an error record for fewer
\* than 40 bits; otherwise one pattern is counted at every start position
\* without wrap-around, so the length-2 counts add up to n - 1 and the
\* length-3 counts to n - 2, and the statistic is not negative.
C22_PatternCountsAndStatistic ==
    (op = "approximate_entropy_test" /\ test_param = 2) =>
        /\ result.kind = "returned"
        /\ IF Len(binary_sequence) < 40
           THEN IsErrorRecord(result.value)
           ELSE LET n == Len(binary_sequence)
                    cm == count_patterns(binary_sequence, 2)
                    cm1 == count_patterns(binary_sequence, 3)
                IN  /\ "error" \notin DOMAIN result.value
                    /\ CountsEveryStart(cm.pattern_counts, 2, n - 1)
                    /\ CountsEveryStart(cm1.pattern_counts, 3, n - 2)
                    /\ result.value.num_patterns_m = n - 1
                    /\ result.value.num_patterns_m1 = n - 2
                    /\ result.value.unique_patterns_m = Cardinality(DOMAIN cm.pattern_counts)
                    /\ result.value.unique_patterns_m1 = Cardinality(DOMAIN cm1.pattern_counts)
                    /\ result.value.statistic # None
                    /\ result.value.statistic[1] >= 0

\* the test ran on 40 bits of period 5 starting with three 1s: 39 patterns of
\* length 2, 38 of length 3, and the pattern 101 never occurs
C22_Witness ==
    /\ ApproximateEntropyTestRan
    /\ binary_sequence = Periodic(40, 5, 3)
    /\ "error" \notin DOMAIN result.value
    /\ result.value.num_patterns_m = 39
    /\ result.value.num_patterns_m1 = 38
    /\ result.value.unique_patterns_m = 4
    /\ result.value.unique_patterns_m1 = 5

----------------------------------------------------------------------------
(* Properties of distribution_analysis, checked under Spec *)

\* analyze returned the blocks of the list numbers
AnalyzeReturned == op = "analyze" /\ result.kind = "returned"

\* the Q-Q block of the last analyze call
QqPlot == result.value.distribution.qq_plot

\* twice the smallest value of numbers and twice max - min
NumbersMin == SeqMin(Halves(numbers))
NumbersRange == SeqMax(Halves(numbers)) - SeqMin(Halves(numbers))

\* list is numbers put in ascending order
IsSortedNumbers(list) ==
    /\ Len(list) = Len(numbers)
    /\ \A i \in 1..(Len(list) - 1) : list[i] <= list[i + 1]
    /\ \A i \in 1..Len(numbers) :
          Cardinality({j \in 1..Len(list) : list[j] = numbers[i].v})
              = Cardinality({j \in 1..Len(numbers) : numbers[j].v = numbers[i].v})

\* the fraction q is min + (hundredths / 100) * (max - min)
IsQuantileAt(q, hundredths) ==
    q.num * 200 = q.den * (100 * NumbersMin + hundredths * NumbersRange)

----------------------------------------------------------------------------
(* Properties of ecdf_regional_deviation, checked under SpecDeviation *)

\* compute_distribution_deviation_metrics returned for the list runs
DeviationReturned ==
    op = "compute_distribution_deviation_metrics" /\ result.kind = "returned"

\* u = x/den lies in region r of 1..5: at or above the lower boundary and below
\* the upper one, the upper boundary 1.0 of region 5 included
InRegion(x, den, r) ==
    /\ AtOrAboveBoundary(x, den, r - 1)
    /\ IF r = 5 THEN x <= den ELSE ~AtOrAboveBoundary(x, den, r)

\* the positions of the sorted normalized run s/den whose value lies in region r
PointsOfRegion(s, den, r) == {i \in 1..Len(s) : InRegion(s[i], den, r)}

\* the list reg reports, for every region of the sorted run s/den, the mean of
\* |i/n - u[i]| over the points of the region, and 0.0 for a region without points
ReportsRegionMeans(reg, s, den) ==
    \A r \in 1..5 :
        LET points == PointsOfRegion(s, den, r)
        IN  IF points = {} THEN reg[r].num = 0
            ELSE reg[r].num * (Len(s) * den * Cardinality(points))
                     = reg[r].den * SeqSum([i \in 1..Len(s) |->
                                              IF i \in points THEN EcdfAbsDev(s, den, i) ELSE 0])

\* C24: in ecdf_regional_deviation with 5 regions every value of a normalized
\* run lies in exactly one region (the first four closed-open, the fifth closed
\* at 1.0), so every point is counted once, and a region without points
\* reports 0.0.
C24_RegionsPartitionUnitInterval ==
    DeviationReturned =>
        LET us == NormalizedRuns(runs)
        IN  /\ \A j \in 1..Len(us) :
                  LET s == NpSort(us[j].x)
                      den == us[j].den
                  IN  /\ \A i \in 1..Len(s) :
                            Cardinality({r \in 1..5 : InRegion(s[i], den, r)}) = 1
                      /\ ReportsRegionMeans(ecdf_regional_deviation(us[j], 5), s, den)
            /\ Len(us) = 1 =>
                  \A r \in 1..5 :
                      /\ ~result.value.ecdf.regional_deviation.mean[r].nan
                      /\ PointsOfRegion(NpSort(us[1].x), us[1].den, r) = {}
                            => result.value.ecdf.regional_deviation.mean[r].x = 0

\* the metrics of the single run 0, 0, 0, 6: three points in the first region,
\* the point 1.0 in the fifth, none in between
C24_Witness ==
    /\ DeviationReturned
    /\ runs = <<RunB>>
    /\ result.value.ecdf.regional_deviation.mean[1].x > 0
    /\ result.value.ecdf.regional_deviation.mean[2].x = 0
    /\ result.value.ecdf.regional_deviation.mean[3].x = 0
    /\ result.value.ecdf.regional_deviation.mean[4].x = 0
    /\ PointsOfRegion(<<0, 0, 0, 12>>, 12, 5) = {4}

----------------------------------------------------------------------------
(* independence_analysis called on a sequence *)

\* lengths around 4 * 50, where the cap of 50 lags starts to act
LongSeriesLengths == {199, 200, 203, 204, 240}

IndependenceAnalysis ==
    /\ op' = "independence_analysis"
    /\ result' = Returned(independence_analysis(arr))
    /\ UNCHANGED <<test_param, body, stats_analyzer, numbers, runs, num_runs, analyzer,
                   binary_sequence, arr, arr_y, max_points, calls, first>>

NextIndependence ==
    \/ \E n \in 0..MaxSeries, shape \in SeriesShapes : NewSeries(n, shape)
    \/ \E n \in LongSeriesLengths, duty \in {0, 1} : NewLongSeries(n, 7, duty)
    \/ IndependenceAnalysis

SpecIndependence == Init /\ [][NextIndependence]_vars

----------------------------------------------------------------------------
(* Properties of independence_analysis, checked under SpecIndependence *)

\* the elements first_pos..last_pos of arr are all equal
ConstantSlice(first_pos, last_pos) ==
    \A i \in first_pos..last_pos : arr[i] = arr[first_pos]

\* C25: independence_analysis returns the lags 1, 2, ..., min(50, floor(n/4))
\* with one autocorrelation value per lag, 0.0 where the correlation is
\* undefined; a sequence of fewer than 4 elements gets an empty lag list, and
\* no call raises.
C25_LagsUpToQuarterOrFifty ==
    (op = "independence_analysis") =>
        /\ result.kind = "returned"
        /\ LET n == Len(arr)
               top == IF n \div 4 < 50 THEN n \div 4 ELSE 50
               lags == result.value.autocorrelation.lags
               values == result.value.autocorrelation.values
           IN  /\ lags = [i \in 1..top |-> i]
               /\ n < 4 => lags = <<>>
               /\ DOMAIN values = 1..top
               /\ \A lag \in 1..top :
                     /\ values[lag].sq_den > 0
                     /\ values[lag].sq_num >= 0
                     /\ values[lag].sq_num <= values[lag].sq_den
                     /\ (ConstantSlice(1, n - lag) \/ ConstantSlice(lag + 1, n))
                           => values[lag].sq_num = 0 /\ values[lag].sign = 0

\* the analysis of 240 values: floor(240/4) = 60 lags are cut to 50
C25_Witness ==
    /\ op = "independence_analysis"
    /\ result.kind = "returned"
    /\ Len(arr) = 240
    /\ Len(result.value.autocorrelation.lags) = 50
    /\ Len(result.value.autocorrelation.values) = 50
    /\ result.value.autocorrelation.values[7].sq_num > 0

----------------------------------------------------------------------------
(* Properties of the rolling statistics of stationarity_analysis, checked
   under SpecRolling *)

StationarityRan == op = "stationarity_analysis" /\ result.kind = "returned"

\* w = max(10, floor(n/20)) for the sequence arr
WindowOfArr == IF Len(arr) \div 20 > 10 THEN Len(arr) \div 20 ELSE 10

\* the number of positions whose window lies inside arr
CompleteCount == IF Len(arr) >= WindowOfArr THEN Len(arr) - WindowOfArr + 1 ELSE 0

\* the 0-based position pos has its centered window inside arr: the window
\* reaches floor(w/2) elements back and floor((w - 1)/2) elements forward
IsCompletePosition(pos) ==
    /\ pos - (WindowOfArr \div 2) >= 0
    /\ pos + ((WindowOfArr - 1) \div 2) <= Len(arr) - 1

\* the rolling lists are aligned: one index list for both, one mean and one
\* standard deviation per index, none of them NaN, every mean that of the
\* window of its index
RollingListsAligned ==
    LET rmean == result.value.rolling_mean
        rstd == result.value.rolling_std
        w == WindowOfArr
    IN  /\ rstd.index = rmean.index
        /\ Len(rmean.values) = Len(rmean.index)
        /\ Len(rstd.values) = Len(rmean.index)
        /\ \A k \in 1..Len(rmean.index) :
              /\ ~rmean.values[k].nan
              /\ ~rstd.values[k].nan
              /\ IsCompletePosition(rmean.index[k])
              /\ rmean.values[k].num * 2 * w
                    = rmean.values[k].den
                        * SeqSum(SubSeq(arr, rmean.index[k] - (w \div 2) + 1,
                                             rmean.index[k] + ((w - 1) \div 2) + 1))

\* the index list holds every complete position, ascending
IndexHoldsEveryCompletePosition ==
    result.value.rolling_mean.index =
        [k \in 1..CompleteCount |-> (WindowOfArr \div 2) + k - 1]

\* C26 (as claimed): with w = max(10, floor(n/20)), rolling_mean and
\* rolling_std report the same index list, which holds exactly the positions
\* whose centered window lies inside the sequence, n - w + 1 of them when
\* n >= w and none when n < w, ascending, without zero-filled or NaN entries.
C26_IndexIsEveryCompleteWindow ==
    StationarityRan => RollingListsAligned /\ IndexHoldsEveryCompletePosition

\* C26 (amended): the same as long as at most MAX_CHART_POINTS positions are
\* complete; beyond that the shared index list is a strictly ascending
\* selection of at most MAX_CHART_POINTS complete positions that keeps the
\* first and the last of them.
C26_IndexIsCompleteWindowsUpToCap ==
    StationarityRan =>
        /\ RollingListsAligned
        /\ IF CompleteCount <= MAX_CHART_POINTS THEN IndexHoldsEveryCompletePosition
           ELSE LET index == result.value.rolling_mean.index
                IN  /\ Len(index) <= MAX_CHART_POINTS
                    /\ Len(index) >= 2
                    /\ index[1] = WindowOfArr \div 2
                    /\ index[Len(index)] = (WindowOfArr \div 2) + CompleteCount - 1
                    /\ \A k \in 1..(Len(index) - 1) : index[k] < index[k + 1]

\* the analysis of 5263 values: the window is 263, 5001 positions are
\* complete and 5000 are reported
C26_Witness ==
    /\ StationarityRan
    /\ Len(arr) = 5263
    /\ CompleteCount = 5001
    /\ Len(result.value.rolling_mean.index) = 5000
    /\ result.value.rolling_mean.index[1] = 131
    /\ result.value.rolling_mean.index[5000] = 5131

----------------------------------------------------------------------------
(* Properties of qq_r_squared_normalized, checked under SpecDeviation *)

\* the Q-Q R-squared of every measured run that is not constant, as num/den
MeasuredRSquared ==
    LET us == NormalizedRuns(runs)
    IN  {qq_r_squared_normalized(us[j]) :
            j \in {k \in 1..Len(us) : \E i \in 1..Len(us[k].x) : us[k].x[i] # us[k].x[1]}}

\* C27 (as claimed): the Q-Q R-squared of every run with at least 2 points
\* that is not constant lies between -1 and 1 inclusive.
C27_RSquaredBetweenMinusOneAndOne ==
    DeviationReturned =>
        /\ \A r2 \in MeasuredRSquared :
              ~r2.nan /\ r2.num <= r2.den /\ r2.num >= 0 - r2.den
        /\ (Len(NormalizedRuns(runs)) = 1 /\ MeasuredRSquared # {}) =>
              /\ result.value.qq.r_squared.mean.x <= DevUnit
              /\ result.value.qq.r_squared.mean.x >= 0 - DevUnit

\* C27 (amended): the Q-Q R-squared of every run with at least 2 points that
\* is not constant is a number and is at most 1; it has no lower bound of -1.
C27_RSquaredAtMostOne ==
    DeviationReturned =>
        /\ \A r2 \in MeasuredRSquared : ~r2.nan /\ r2.den > 0 /\ r2.num <= r2.den
        /\ (Len(NormalizedRuns(runs)) = 1 /\ MeasuredRSquared # {}) =>
              /\ ~result.value.qq.r_squared.mean.nan
              /\ result.value.qq.r_squared.mean.x <= DevUnit

\* the metrics of the single run of seven 0s and one 1: ss_res = 114/64,
\* ss_tot = 7/8, R-squared = 1 - 114/56 = -1.0357
C27_Witness ==
    /\ DeviationReturned
    /\ runs = <<RunSkewed>>
    /\ MeasuredRSquared # {}
    /\ \A r2 \in MeasuredRSquared : 56 * r2.num = (56 - 114) * r2.den
    /\ result.value.qq.r_squared.mean.x < 0 - DevUnit

----------------------------------------------------------------------------
(* Properties of the error records of runs_test, checked under SpecNist *)

\* the sequence holds both bit values
HasBothBits == 0 \in {binary_sequence[i] : i \in 1..Len(binary_sequence)}
               /\ 1 \in {binary_sequence[i] : i \in 1..Len(binary_sequence)}

\* C28: runs_test returns an error record for fewer than 2 bits and for a
\* sequence of equal bits; a sequence of 3 or more bits holding both values
\* has a positive variance term 2*ones*zeros*(2*ones*zeros - n) (both factors
\* are positive) and gets a numeric p_value; the sequences 01 and 10 are the only ones holding both
\* values that get an error, "Invalid variance".
C28_RunsTestErrorsOnlyWhereClaimed ==
    (op = "runs_test") =>
        LET n == Len(binary_sequence)
            ones == Cardinality({i \in 1..n : binary_sequence[i] = 1})
        IN  /\ result.kind = "returned"
            /\ (n < 2 \/ ~HasBothBits) => IsErrorRecord(result.value)
            /\ (n >= 3 /\ HasBothBits) =>
                  /\ 2 * ones * (n - ones) > 0
                  /\ 2 * ones * (n - ones) - n > 0
                  /\ "error" \notin DOMAIN result.value
                  /\ result.value.p_value # None
            /\ (HasBothBits /\ "error" \in DOMAIN result.value) =>
                  /\ binary_sequence \in {<<0, 1>>, <<1, 0>>}
                  /\ result.value.error = "Invalid variance"
            /\ binary_sequence \in {<<0, 1>>, <<1, 0>>} =>
                  /\ IsErrorRecord(result.value)
                  /\ result.value.error = "Invalid variance"

\* runs_test ran on 1 0 and returned the error record of a zero variance
C28_Witness ==
    /\ op = "runs_test"
    /\ binary_sequence = <<1, 0>>
    /\ IsErrorRecord(result.value)
    /\ result.value.error = "Invalid variance"


----------------------------------------------------------------------------
(* Properties of the indices of downsample, checked under SpecLinspace *)

\* a downsampling call has cut an array longer than max_points >= 2
CutToMaxPoints ==
    /\ op \in {"downsample", "downsample_single"}
    /\ max_points >= 2
    /\ Len(arr) > max_points

\* the list cut from arr by the call
CutOfArr == IF op = "downsample" THEN result.value[1] ELSE result.value

\* the exact quotient floor(i * (n - 1) / (max_points - 1))
ExactIndex(i) == (i * (Len(arr) - 1)) \div (max_points - 1)

\* the 0-based index of arr that the element out[i + 1] was taken from; the
\* arrays of NewArrays rise by one from base + 1
IndexTaken(out, i) == out[i + 1] - arr[1]

\* both lists of downsample are taken at the same indices (y is twice the
\* 1-based position)
SameIndicesFromY ==
    op = "downsample" =>
        /\ Len(result.value[2]) = Len(result.value[1])
        /\ \A i \in 1..Len(result.value[1]) :
              result.value[2][i] = 2 * (IndexTaken(result.value[1], i - 1) + 1)

\* C29 as stated: for n > max_points >= 2, downsample and downsample_single
\* return exactly max_points elements, the i-th taken at index
\* floor(i * (n - 1) / (max_points - 1)), i = 0..max_points - 1.
C29_IndicesAreExactQuotients ==
    CutToMaxPoints =>
        LET out == CutOfArr
        IN  /\ Len(out) = max_points
            /\ \A i \in 0..(max_points - 1) : IndexTaken(out, i) = ExactIndex(i)
            /\ SameIndicesFromY

\* C29, amended: for n > max_points >= 2, downsample and downsample_single
\* return exactly max_points elements at strictly increasing indices from 0
\* to n - 1, so the order is kept and nothing is repeated; the i-th index is
\* floor(i * (n - 1) / (max_points - 1)) when that quotient is no integer,
\* and the quotient or one less when it is an integer.
C29_IndicesAreQuotientsUpToRounding ==
    CutToMaxPoints =>
        LET out == CutOfArr
            n == Len(arr)
        IN  /\ Len(out) = max_points
            /\ IndexTaken(out, 0) = 0
            /\ IndexTaken(out, max_points - 1) = n - 1
            /\ \A i \in 1..(max_points - 1) :
                  IndexTaken(out, i - 1) < IndexTaken(out, i)
            /\ \A i \in 0..(max_points - 1) :
                  \/ IndexTaken(out, i) = ExactIndex(i)
                  \/ /\ IndexTaken(out, i) = ExactIndex(i) - 1
                     /\ (i * (n - 1)) % (max_points - 1) = 0
            /\ SameIndicesFromY

\* downsample cut 31 pairs to 23 and took index 14 where the quotient
\* 11 * 30 / 22 is 15
C29_Witness ==
    /\ op = "downsample"
    /\ Len(arr) = 31
    /\ max_points = 23
    /\ Len(result.value[1]) = 23
    /\ IndexTaken(result.value[1], 11) = 14
    /\ IndexTaken(result.value[1], 12) = 16


----------------------------------------------------------------------------
(* Properties of the run counts of analyze_multi_run, checked under Spec *)

\* analyze_multi_run returned a result for the submitted runs
MultiRunReturned ==
    /\ op = "analyze_multi_run"
    /\ result.kind = "returned"

\* C30: count_per_run in the analyze_multi_run result is the length of the
\* first submitted run, whatever the lengths of the other runs, and num_runs
\* is the value the caller declared, not the number of runs submitted.
C30_CountsAreFirstRunAndDeclared ==
    MultiRunReturned =>
        /\ result.value.count_per_run = Len(runs[1])
        /\ result.value.num_runs = num_runs

\* two runs of different lengths were analyzed under a declared count of one:
\* count_per_run is the first length, not the second, and num_runs is not the
\* number of runs
C30_Witness ==
    /\ MultiRunReturned
    /\ Len(runs) = 2
    /\ Len(runs[1]) # Len(runs[2])
    /\ num_runs # Len(runs)
    /\ result.value.count_per_run = Len(runs[1])
    /\ result.value.count_per_run # Len(runs[2])
    /\ result.value.num_runs = num_runs
    /\ result.value.num_runs # Len(runs)

============================================================================
